---- MODULE Spec2Model ----
(***************************************************************************)
(* A state-machine model of claudesdk-go: the Launcher (one subprocess,    *)
(* its stdout scanner, Start / ReadMessage / Wait / Kill), the Session     *)
(* multiplexer (Run, readLoop, waitLoop, the non-blocking sends, close)    *)
(* and the blocking collection methods (CollectAll, CollectMessages).      *)
(***************************************************************************)
EXTENDS Integers, Sequences, FiniteSets, TLC

\* ------------------------------------------------------------------ bounds
\* Longest stdout script (lines written by one subprocess).
MaxLines == 2
\* Largest explicit SessionConfig.ChannelBuffer tried (0 selects the default).
MaxBuf == 1
\* Number of Run calls made on one Session.
MaxRuns == 2
\* Number of operations a direct Launcher client issues.
MaxOps == 4
\* Longest inherited environment (os.Environ()) tried.
MaxEnv == 2
\* Most LaunchOptions fields set away from their zero value in one call.
MaxFlags == 2
\* Most content blocks in a message handed to the extraction functions.
MaxBlocks == 2
\* Most entries in the todos list of a TodoWrite call.
MaxTodos == 2
\* Most lines in a captured stream handed to parseRichMetrics.
MaxStream == 3

\* ------------------------------------------------------- program constants
\* NewSession: bufSize = 100 when cfg.ChannelBuffer <= 0.
DefaultChannelBuffer == 100
\* NewSession: Errors is make(chan error, 10).
ErrorsBuffer == 10

\* ------------------------------------------------------------- wire format
\* One line of subprocess stdout.  "empty" is the empty line, "bad" a line
\* that is not valid JSON; the others parse to a StreamMessage.
LineKinds == {"init", "asst", "result", "bad", "empty"}

\* Assistant lines that carry tool_use blocks: "tool" has one tool_use block
\* and no text, "textTool" a text block followed by two tool_use blocks.
ToolLineKinds == {"tool", "textTool"}

\* The content blocks of an assistant line.
ContentOf(kind, idx) ==
    LET text == [Type |-> "text", Text |-> "hello" \o ToString(idx), Name |-> ""]
        use(name) == [Type |-> "tool_use", Text |-> "", Name |-> name]
    IN  CASE kind = "asst"     -> <<text>>
          [] kind = "tool"     -> <<use("Bash")>>
          [] kind = "textTool" -> <<text, use("Read"), use("Write")>>
          [] OTHER             -> <<>>

\* json.Unmarshal of a valid line: the StreamMessage fields the model reads.
\* idx is the position of the line in the script (the identity of the line).
ParseLine(kind, idx) ==
    [idx       |-> idx,
     Type      |-> CASE kind = "init"   -> "system"
                     [] kind \in {"asst"} \cup ToolLineKinds -> "assistant"
                     [] kind = "result" -> "result"
                     [] OTHER           -> "",
     Subtype   |-> IF kind = "init" THEN "init" ELSE "",
     SessionID |-> IF kind \in {"init", "result"} THEN "sid" ELSE "",
     Model     |-> IF kind = "init" THEN "model" ELSE "",
     Text      |-> "",
     Content   |-> ContentOf(kind, idx),
     Result    |-> IF kind = "result" THEN "result" \o ToString(idx) ELSE "",
     NumTurns  |-> IF kind = "result" THEN idx ELSE 0]

\* First content block of type text with non-empty text, "" when none.
RECURSIVE FirstTextBlock(_)
FirstTextBlock(content) ==
    IF content = <<>> THEN ""
    ELSE IF Head(content).Type = "text" /\ Head(content).Text # ""
         THEN Head(content).Text
         ELSE FirstTextBlock(Tail(content))

\* A nil *StreamMessage.
NilMessage == [isNil |-> TRUE]

\* ExtractText looking at the content blocks before the direct Text field.
ExtractTextContentFirst(msg) ==
    IF msg = NilMessage THEN ""
    ELSE IF FirstTextBlock(msg.Content) # "" THEN FirstTextBlock(msg.Content)
    ELSE IF msg.Text # "" THEN msg.Text
    ELSE IF msg.Type = "result" /\ msg.Result # "" THEN msg.Result
    ELSE ""

\* ExtractText(msg).  A nil msg.Message is a message without content blocks.
ExtractText(msg) ==
    IF msg = NilMessage THEN ""
    ELSE IF msg.Text # "" THEN msg.Text
    ELSE IF FirstTextBlock(msg.Content) # "" THEN FirstTextBlock(msg.Content)
    ELSE IF msg.Type = "result" /\ msg.Result # "" THEN msg.Result
    ELSE ""

\* GetToolCall: the name of the first tool_use block with a name, "" when none.
RECURSIVE FirstToolUse(_)
FirstToolUse(content) ==
    IF content = <<>> THEN ""
    ELSE IF Head(content).Type = "tool_use" /\ Head(content).Name # ""
         THEN Head(content).Name
         ELSE FirstToolUse(Tail(content))

GetToolCall(msg) == FirstToolUse(msg.Content)

\* ------------------------------------------------------------------- state
VARIABLES
    L,         \* launchers: the Launcher objects, by creation order
    P,         \* the OS subprocess of each launcher and what it writes
    s,         \* the Session's fields
    Messages,  \* buffered contents of Session.Messages
    Text,      \* buffered contents of Session.Text
    Errors,    \* buffered contents of Session.Errors
    reader,    \* readLoop goroutines, one per successful Run
    waiter,    \* waitLoop goroutines, one per successful Run
    caller,    \* the application goroutine calling Run / Collect* / Launcher methods
    ctx,       \* the caller's context
    crashed,   \* an unrecovered panic ended the program
    h          \* history: what was parsed, enqueued, dropped, received

vars == <<L, P, s, Messages, Text, Errors, reader, waiter, caller, ctx, crashed, h>>

Launchers == 1..MaxRuns

\* The callbacks of a Hooks bundle.
HookNames ==
    {"OnMessage", "OnText", "OnToolCall", "OnError", "OnStart", "OnExit", "OnMetrics"}

\* opts.Hooks: bundle is whether the *Hooks pointer is non-nil, set the
\* callbacks of the bundle that are non-nil.  AllHooks has every callback.
AllHooks == [bundle |-> TRUE, set |-> HookNames]
NilHooks == [bundle |-> FALSE, set |-> {}]

\* An invoke* that looks at the bundle only and calls whatever it holds.
HookSetBundleOnly(cfg, name) == cfg.bundle

\* The guard of every invoke*: h != nil && h.On<name> != nil.
HookSet(cfg, name) == cfg.bundle /\ name \in cfg.set

\* The invocations among q that reach a callback; the others are skipped.
Invoked(cfg, q) == SelectSeq(q, LAMBDA e : HookSet(cfg, e.hook))

\* How many times one invoke* of the named hook calls its callback.
InvokedOnce(cfg, name) == IF HookSet(cfg, name) THEN 1 ELSE 0

\* NewLauncher(): every field zero, done open.
NewLauncher ==
    [started    |-> FALSE,
     cmdSet     |-> FALSE,   \* l.cmd # nil
     stdoutSet  |-> FALSE,   \* l.stdout # nil
     done       |-> 0,       \* number of times close(l.done) ran
     waited     |-> FALSE,   \* cmd.Wait has returned (cmd.ProcessState # nil)
     pipeClosed |-> FALSE,   \* cmd.Wait closed the parent's end of the stdout pipe
     buffered   |-> 0,       \* lines the scanner has pulled from the pipe
     readPos    |-> 0,       \* lines the scanner has returned
     scan       |-> "ok",    \* scanner state: ok, eof (stopped, Err nil), err (stopped, Err # nil)
     onStart    |-> 0,       \* calls of the OnStart callback
     onExit     |-> 0,       \* calls of the OnExit callback
     procSet    |-> FALSE,   \* l.cmd.Process # nil
     tempFiles  |-> 0,       \* len(l.tempFiles)
     tempOnDisk |-> 0,       \* how many of those files exist on disk
     errTask    |-> "none",  \* collectStderr goroutine: none, read, store, done
     errData    |-> "",      \* what its io.ReadAll has read so far
     stderrBuf  |-> "",      \* l.stderrBuf
     waitStderr |-> "",      \* the stderr text Wait put in its *ExitError
     hooks      |-> <<>>,    \* callbacks called by ReadMessage, in order
     hookCfg    |-> AllHooks, \* the opts.Hooks that Start is given
     mu         |-> ""]      \* l.mu: the task that holds it, "" when unlocked

\* The errors the model distinguishes.
NoError == "nil"
ErrSessionClosed == "ErrSessionClosed"
ErrAlreadyStarted == "ErrAlreadyStarted"
ErrNotStarted == "ErrNotStarted"
ErrSessionTimeout == "ErrSessionTimeout"
ErrCLINotFound == "ErrCLINotFound"
StartError == "StartError"
ErrWaitAlreadyCalled == "exec: Wait was already called"
ErrRead == "read error"
ErrParse == "ParseError"
\* *ParseError{Line: line, Err: err} for the line at position idx.
ParseError(idx) == ErrParse \o " line " \o ToString(idx)
ErrBufferFull == "message channel buffer full, dropping message"
CtxErr == "context canceled"
\* *ExitError{Code: code}
ExitError(code) == "ExitError " \o ToString(code)

\* Exit codes a subprocess may choose; a killed process reports -1.
ExitCodes == {0, 1}
KilledCode == -1

\* ------------------------------------------------------------ OS subprocess
\* What the spawned CLI does: the lines it writes to stdout and the status it
\* exits with.  state: none (not spawned), running, exited.
NewProcess(script, code) ==
    [state    |-> "none",
     script   |-> script,
     planCode |-> code,
     exitCode |-> 0,
     written  |-> 0,      \* lines written to the stdout pipe so far
     killed   |-> FALSE,  \* SIGKILL delivered (Kill, or the context's cancellation)
     spawns   |-> 0,      \* processes cmd.Start has spawned for this launcher
     interrupted |-> FALSE,  \* SIGINT delivered (Interrupt)
     stderr   |-> ""]     \* what it has written to the stderr pipe

\* The subprocess writes its next line to stdout.
ProcWrite(i) ==
    /\ ~crashed
    /\ P[i].state = "running"
    /\ ~P[i].killed
    /\ P[i].written < Len(P[i].script)
    /\ P' = [P EXCEPT ![i].written = @ + 1]
    /\ UNCHANGED <<L, s, Messages, Text, Errors, reader, waiter, caller, ctx, crashed, h>>

\* The subprocess writes a diagnostic to stderr.
ProcWriteErr(i) ==
    /\ ~crashed
    /\ P[i].state = "running"
    /\ ~P[i].killed
    /\ P[i].stderr = ""
    /\ P' = [P EXCEPT ![i].stderr = "boom"]
    /\ UNCHANGED <<L, s, Messages, Text, Errors, reader, waiter, caller, ctx, crashed, h>>

\* The subprocess exits: after its last line with the status it chose, early
\* with that status when interrupted, or at once when killed.  Its ends of
\* the pipes close with it.
ProcExit(i) ==
    /\ ~crashed
    /\ P[i].state = "running"
    /\ P[i].killed \/ P[i].interrupted \/ P[i].written = Len(P[i].script)
    /\ P' = [P EXCEPT ![i].state = "exited",
                      ![i].exitCode = IF P[i].killed THEN KilledCode ELSE P[i].planCode]
    /\ UNCHANGED <<L, s, Messages, Text, Errors, reader, waiter, caller, ctx, crashed, h>>

\* exec.CommandContext: once ctx is done (the caller's context cancelled, or
\* the deadline of the context derived for opts.Timeout passed) the os/exec
\* watcher kills the process.
CtxKill(i) ==
    /\ ~crashed
    /\ ctx.cancelled \/ ctx.expired
    /\ P[i].state = "running"
    /\ ~P[i].killed
    /\ P' = [P EXCEPT ![i].killed = TRUE]
    /\ UNCHANGED <<L, s, Messages, Text, Errors, reader, waiter, caller, ctx, crashed, h>>

\* The caller's context is cancelled (by the application or by a deadline).
Cancel ==
    /\ ~crashed
    /\ ~ctx.cancelled
    /\ caller.pc = "select"
    /\ ctx' = [ctx EXCEPT !.cancelled = TRUE,
                          !.whileWaiting = caller.pc = "select"
                                           /\ s.launcher # 0
                                           /\ P[s.launcher].state = "running"]
    /\ UNCHANGED <<L, P, s, Messages, Text, Errors, reader, waiter, caller, crashed, h>>

\* opts.Timeout elapses: the context Start derived with context.WithTimeout
\* is done while the process of launcher i is still running.  The caller's own
\* context is not affected.
TimeoutExpire(i) ==
    /\ ~crashed
    /\ ctx.timeout
    /\ ~ctx.expired
    /\ L[i].started
    /\ P[i].state = "running"
    /\ ctx' = [ctx EXCEPT !.expired = TRUE]
    /\ UNCHANGED <<L, P, s, Messages, Text, Errors, reader, waiter, caller, crashed, h>>

\* ---------------------------------------------------------------- Launcher
\* What the environment does to a Start call: the binary is missing from PATH,
\* the spawn (cmd.Start) fails, or the process starts.
StartEnvs == {"ok", "notfound", "spawnfail"}

\* The same with opts.MCPServers set, which makes Start write a temporary
\* config file: the write fails, the spawn fails after it, or the process
\* starts.
MCPEnvs == {"writefail", "spawnfailmcp", "okmcp"}

\* l.tempFiles = append(l.tempFiles, mcpFile) after os.WriteFile succeeded.
WithTempFile(l, env) ==
    IF env \in MCPEnvs
    THEN [l EXCEPT !.tempFiles = @ + 1, !.tempOnDisk = @ + 1]
    ELSE l

\* What Start does past the l.started guard: [ret, l] the returned error and
\* the launcher's fields.  A failed cmd.Start leaves l.cmd and l.stdout set
\* over pipes that os/exec has already closed.
StartBody(l, env) ==
    IF env = "notfound" THEN [ret |-> ErrCLINotFound, l |-> l]
    ELSE IF env = "writefail" THEN [ret |-> StartError, l |-> l]
    ELSE IF env \in {"spawnfail", "spawnfailmcp"} \/ ctx.cancelled
         THEN [ret |-> StartError,
               l   |-> [WithTempFile(l, env) EXCEPT
                                 !.cmdSet = TRUE, !.stdoutSet = TRUE, !.pipeClosed = TRUE,
                                 !.procSet = FALSE]]
         ELSE [ret |-> NoError,
               l   |-> [WithTempFile(l, env) EXCEPT
                                 !.cmdSet = TRUE, !.stdoutSet = TRUE, !.started = TRUE,
                                 !.onStart = @ + InvokedOnce(l.hookCfg, "OnStart"),
                                 !.buffered = 0, !.readPos = 0, !.scan = "ok",
                                 !.pipeClosed = FALSE, !.waited = FALSE,
                                 !.procSet = TRUE, !.errTask = "read", !.errData = ""]]

\* Start with the l.started guard left out.
StartCallUnguarded(l, env) == StartBody(l, env)

\* Launcher.Start(ctx, prompt, opts) on launcher record l; the whole call
\* runs under l.mu.
StartCall(l, env) ==
    IF l.started THEN [ret |-> ErrAlreadyStarted, l |-> l] ELSE StartBody(l, env)

\* Launcher.Start on launcher i: the launcher's fields, and the process that
\* cmd.Start spawns when it succeeds.
LauncherStart(i, env) ==
    /\ L' = [L EXCEPT ![i] = StartCall(L[i], env).l]
    /\ P' = [P EXCEPT ![i] = IF StartCall(L[i], env).ret = NoError
                             THEN [@ EXCEPT !.state = "running", !.written = 0,
                                            !.killed = FALSE, !.spawns = @ + 1,
                                            !.interrupted = FALSE, !.stderr = ""]
                             ELSE @]

\* metricsFromMessage(msg)
metricsFromMessage(msg) ==
    [NumTurns |-> msg.NumTurns, Model |-> msg.Model, SessionID |-> msg.SessionID]

\* The hooks with the tool call announced before everything else.
MessageHooksToolFirst(msg) ==
    (IF GetToolCall(msg) # ""
     THEN <<[hook |-> "OnToolCall", idx |-> msg.idx, arg |-> GetToolCall(msg)]>> ELSE <<>>)
    \o <<[hook |-> "OnMessage", idx |-> msg.idx, arg |-> msg.Type]>>
    \o (IF ExtractText(msg) # ""
        THEN <<[hook |-> "OnText", idx |-> msg.idx, arg |-> ExtractText(msg)]>> ELSE <<>>)
    \o (IF msg.Type = "result"
        THEN <<[hook |-> "OnMetrics", idx |-> msg.idx, arg |-> ToString(metricsFromMessage(msg).NumTurns)]>>
        ELSE <<>>)

\* The hooks ReadMessage invokes for a parsed message, in the order of the
\* calls: invokeMessage, invokeText when ExtractText is not empty,
\* invokeToolCall when GetToolCall finds a tool, invokeMetrics for a result.
MessageHooks(msg) ==
    <<[hook |-> "OnMessage", idx |-> msg.idx, arg |-> msg.Type]>>
    \o (IF ExtractText(msg) # ""
        THEN <<[hook |-> "OnText", idx |-> msg.idx, arg |-> ExtractText(msg)]>> ELSE <<>>)
    \o (IF GetToolCall(msg) # ""
        THEN <<[hook |-> "OnToolCall", idx |-> msg.idx, arg |-> GetToolCall(msg)]>> ELSE <<>>)
    \o (IF msg.Type = "result"
        THEN <<[hook |-> "OnMetrics", idx |-> msg.idx, arg |-> ToString(metricsFromMessage(msg).NumTurns)]>>
        ELSE <<>>)

\* One bufio.Scanner step of ReadMessage on launcher record l fed by process
\* p: [kind, l] with kind one of
\*   panic  l.stdout is nil (the launcher never got as far as its pipes)
\*   eof    Scan() false, Err() nil          err  Scan() false, Err() # nil
\*   line   Scan() true, the next line       block  nothing to return yet
\* A stopped scanner stays stopped.  Lines already pulled into the scanner's
\* buffer are returned even after cmd.Wait closed the pipe; a read of the
\* closed pipe fails.
ScanStep(l, p) ==
    IF ~l.stdoutSet THEN [kind |-> "panic", l |-> l]
    ELSE IF l.scan # "ok" THEN [kind |-> l.scan, l |-> l]
    ELSE IF l.readPos < l.buffered
         THEN [kind |-> "line", l |-> [l EXCEPT !.readPos = @ + 1]]
    ELSE IF l.pipeClosed THEN [kind |-> "err", l |-> [l EXCEPT !.scan = "err"]]
    ELSE IF p.written > l.buffered
         THEN [kind |-> "line", l |-> [l EXCEPT !.buffered = p.written, !.readPos = @ + 1]]
    ELSE IF p.state = "exited" THEN [kind |-> "eof", l |-> [l EXCEPT !.scan = "eof"]]
    ELSE [kind |-> "block", l |-> l]

\* Launcher.ReadMessage on launcher record l: [kind, l, msg] with kind one of
\* panic, block, eof (nil, nil), err (nil, read error), parse (nil,
\* *ParseError), msg (the parsed message), skip (an empty line was consumed
\* and ReadMessage calls itself again).
\* ReadMessage handing an empty line to json.Unmarshal like any other line:
\* it does not parse.
ReadMessageNoSkip(l, p) ==
    LET r == ScanStep(l, p)
        idx == r.l.readPos
        line == p.script[idx]
    IN  IF r.kind # "line" THEN [kind |-> r.kind, l |-> r.l, msg |-> <<>>]
        ELSE IF line \in {"bad", "empty"}
             THEN [kind |-> "parse",
                   l    |-> [r.l EXCEPT !.hooks = @ \o Invoked(l.hookCfg,
                                        <<[hook |-> "OnError", idx |-> idx,
                                           arg |-> ParseError(idx)]>>)],
                   msg  |-> <<>>]
        ELSE [kind |-> "msg",
              l    |-> [r.l EXCEPT !.hooks =
                                    @ \o Invoked(l.hookCfg, MessageHooks(ParseLine(line, idx)))],
              msg  |-> ParseLine(line, idx)]

\* Every invoke* call that reaches a callback appends [hook, idx, arg] to
\* l.hooks: the hook, the line being handled and what the hook is given.
ReadMessage(l, p) ==
    LET r == ScanStep(l, p)
        idx == r.l.readPos
        line == p.script[idx]
    IN  IF r.kind # "line" THEN [kind |-> r.kind, l |-> r.l, msg |-> <<>>]
        ELSE IF line = "empty" THEN [kind |-> "skip", l |-> r.l, msg |-> <<>>]
        ELSE IF line = "bad"
             THEN [kind |-> "parse",
                   l    |-> [r.l EXCEPT !.hooks = @ \o Invoked(l.hookCfg,
                                        <<[hook |-> "OnError", idx |-> idx,
                                           arg |-> ParseError(idx)]>>)],
                   msg  |-> <<>>]
        ELSE [kind |-> "msg",
              l    |-> [r.l EXCEPT !.hooks =
                                    @ \o Invoked(l.hookCfg, MessageHooks(ParseLine(line, idx)))],
              msg  |-> ParseLine(line, idx)]

ZeroMetrics == [NumTurns |-> 0, Model |-> "", SessionID |-> ""]

\* The error cmd.Wait's result becomes in Launcher.Wait: nil for status 0,
\* *ExitError for a non-zero status, and os/exec's own error unchanged when
\* cmd.Wait had already been called.
WaitOutcome(l, p) ==
    IF l.waited THEN ErrWaitAlreadyCalled
    ELSE IF p.exitCode = 0 THEN NoError
    ELSE ExitError(p.exitCode)

\* Whether cmd.Wait can return: the process has exited (or Wait was already
\* called, which os/exec answers at once).
WaitReady(l, p) == l.waited \/ p.state = "exited"

\* Wait closing l.done whether or not it is closed already.
WaitFieldsCloseAgain(l) ==
    [l EXCEPT !.waited = TRUE, !.pipeClosed = TRUE, !.tempOnDisk = 0,
              !.done = @ + 1, !.onExit = @ + InvokedOnce(l.hookCfg, "OnExit"),
              !.waitStderr = l.stderrBuf]

\* Wait leaving the temporary files where they are.
WaitFieldsKeepFiles(l) ==
    [l EXCEPT !.waited = TRUE, !.pipeClosed = TRUE,
              !.done = IF @ = 0 THEN 1 ELSE @,
              !.onExit = @ + InvokedOnce(l.hookCfg, "OnExit"),
              !.waitStderr = l.stderrBuf]

\* Launcher.Wait after the l.started check, once cmd.Wait has returned: the
\* pipes are closed, every file of l.tempFiles is removed, l.done is closed
\* unless closed already, OnExit fires, and l.stderrBuf is read for the
\* *ExitError.
WaitFields(l) ==
    [l EXCEPT !.waited = TRUE, !.pipeClosed = TRUE,
              !.tempOnDisk = 0,
              !.done = IF @ = 0 THEN 1 ELSE @,
              !.onExit = @ + InvokedOnce(l.hookCfg, "OnExit"),
              !.waitStderr = l.stderrBuf]

\* Launcher.Kill: [ret, killed].
KillCall(l, p) ==
    IF ~l.started THEN [ret |-> ErrNotStarted, killed |-> p.killed]
    ELSE IF p.state = "exited" THEN [ret |-> "os: process already finished", killed |-> p.killed]
    ELSE [ret |-> NoError, killed |-> TRUE]

\* Interrupt signalling without looking at l.started.
InterruptCallUnguarded(l, p) == [ret |-> NoError, interrupted |-> TRUE]

\* Launcher.Interrupt: [ret, interrupted].
InterruptCall(l, p) ==
    IF ~l.started \/ ~l.procSet THEN [ret |-> ErrNotStarted, interrupted |-> p.interrupted]
    ELSE IF p.state = "exited"
         THEN [ret |-> "os: process already finished", interrupted |-> p.interrupted]
    ELSE [ret |-> NoError, interrupted |-> TRUE]

\* The pid the OS gave the spawned process.
ProcessPid == 4242

\* Launcher.PID(): the pid once l.cmd.Process exists, else 0.
PID(l) == IF l.cmdSet /\ l.procSet THEN ProcessPid ELSE 0

\* Launcher.Running(): started, with a process, and l.done not yet closed.
Running(l) == l.started /\ l.cmdSet /\ l.procSet /\ l.done = 0

\* collectStderr: io.ReadAll(l.stderr) reads what the process has written.
StderrRead(i) ==
    /\ ~crashed
    /\ L[i].errTask = "read"
    /\ ~L[i].pipeClosed
    /\ L[i].errData # P[i].stderr
    /\ L' = [L EXCEPT ![i].errData = P[i].stderr]
    /\ UNCHANGED <<P, s, Messages, Text, Errors, reader, waiter, caller, ctx, crashed, h>>

\* collectStderr: io.ReadAll returns, at end of stream once the process has
\* exited, or with a read error (discarded) once cmd.Wait closed the pipe; in
\* both cases with what it had read.
StderrReturn(i) ==
    /\ ~crashed
    /\ L[i].errTask = "read"
    /\ L[i].pipeClosed \/ (P[i].state = "exited" /\ L[i].errData = P[i].stderr)
    /\ L' = [L EXCEPT ![i].errTask = "store"]
    /\ UNCHANGED <<P, s, Messages, Text, Errors, reader, waiter, caller, ctx, crashed, h>>

\* collectStderr: l.stderrBuf = data, under l.mu.
StderrStore(i) ==
    /\ ~crashed
    /\ L[i].errTask = "store"
    /\ L' = [L EXCEPT ![i].stderrBuf = L[i].errData, ![i].errTask = "done"]
    /\ UNCHANGED <<P, s, Messages, Text, Errors, reader, waiter, caller, ctx, crashed, h>>

\* ----------------------------------------------------------------- Session
\* NewSession(cfg): the buffer size of Messages and Text.
BufSize(channelBuffer) ==
    IF channelBuffer <= 0 THEN DefaultChannelBuffer ELSE channelBuffer

\* NewSession(cfg): channels open and empty, nothing started.  nDone,
\* nMessages, nText, nErrors count the close() of each channel.
NewSession(channelBuffer) ==
    [bufSize   |-> BufSize(channelBuffer),
     launcher  |-> 0,
     closed    |-> FALSE,
     nDone     |-> 0,
     nMessages |-> 0,
     nText     |-> 0,
     nErrors   |-> 0,
     err       |-> NoError,
     metrics   |-> ZeroMetrics,
     mu        |-> ""]      \* s.mu: the task that holds it, "" when unlocked

\* close() without the s.closed guard.
CloseUnguarded(sv) ==
    [sv EXCEPT !.closed = TRUE, !.nDone = @ + 1, !.nMessages = @ + 1,
               !.nText = @ + 1, !.nErrors = @ + 1]

\* Session.close(): under s.mu, nothing when s.closed, else set it and close
\* done, Messages, Text and Errors.
SessionClose(sv) ==
    IF sv.closed THEN sv
    ELSE [sv EXCEPT !.closed = TRUE, !.nDone = @ + 1, !.nMessages = @ + 1,
                    !.nText = @ + 1, !.nErrors = @ + 1]

\* A plain ch <- v: ready only when the buffer has room.
SendReady(q, cap) == Len(q) < cap

\* A send that puts the newest value first.
TrySendFront(q, cap, v) == IF Len(q) < cap THEN <<v>> \o q ELSE q

\* A select { case ch <- v: default: } on a channel holding q with capacity
\* cap: the value is buffered when there is room and dropped otherwise.
TrySend(q, cap, v) == IF Len(q) < cap THEN Append(q, v) ELSE q

\* Whether such a select can proceed: the default branch makes it ready
\* whatever the buffer holds.
SelectReady(q, cap) == TRUE

\* Where readLoop goes after sendText (or after sendMessage when there is no
\* text to send): the metrics update for a result message, the session-info
\* capture for an init message, else the next ReadMessage.
AfterText(msg) ==
    IF msg.Type = "result" THEN "metrics"
    ELSE IF msg.Type = "system" /\ msg.Subtype = "init" /\ msg.SessionID # "" THEN "init"
    ELSE "read"

\* readLoop sending the text of every message that has one.
AfterMessageAnyText(msg) ==
    IF ExtractText(msg) # "" THEN "sendText" ELSE AfterText(msg)

\* Where readLoop goes after sendMessage.
AfterMessage(msg) ==
    IF msg.Type = "assistant" /\ ExtractText(msg) # "" THEN "sendText" ELSE AfterText(msg)

\* readLoop leaving the loop after an error.
BreakAfterError == "close"

\* Where readLoop goes after sendError(err): continue, the next ReadMessage.
AfterSendError == "read"

IdleTask == [pc |-> "none", msg |-> <<>>, err |-> NoError, panicking |-> FALSE]

\* readLoop sending the text of an assistant message before the message.
AfterReadTextFirst(msg) ==
    IF msg.Type = "assistant" /\ ExtractText(msg) # "" THEN "sendText" ELSE "sendMessage"

\* Where readLoop goes with the message ReadMessage returned: s.sendMessage(*msg).
AfterRead(msg) == "sendMessage"

\* readLoop: msg, err := s.launcher.ReadMessage().  s.launcher is read anew
\* at every call.  An empty line keeps the call inside ReadMessage; a nil
\* l.stdout is a nil dereference, which unwinds through the deferred close.
ReaderRead(i) ==
    /\ ~crashed
    /\ reader[i].pc = "read"
    /\ s.launcher # 0
    /\ LET j == s.launcher
           r == ReadMessage(L[j], P[j])
       IN  /\ r.kind # "block"
           /\ L' = [L EXCEPT ![j] = r.l]
           /\ reader' = [reader EXCEPT ![i] =
                CASE r.kind = "msg"   -> [@ EXCEPT !.pc = AfterRead(r.msg), !.msg = r.msg]
                  [] r.kind = "parse" -> [@ EXCEPT !.pc = "sendError",
                                                   !.err = ParseError(r.l.readPos)]
                  [] r.kind = "err"   -> [@ EXCEPT !.pc = "sendError", !.err = ErrRead]
                  [] r.kind = "eof"   -> [@ EXCEPT !.pc = "close"]
                  [] r.kind = "panic" -> [@ EXCEPT !.pc = "close", !.panicking = TRUE]
                  [] OTHER            -> @]
           /\ h' = IF r.kind = "msg"
                   THEN [h EXCEPT !.parsed = Append(@, r.msg.idx)]
                   ELSE IF r.kind = "err" THEN [h EXCEPT !.readErr = TRUE]
                   ELSE IF r.kind = "parse" THEN [h EXCEPT !.parseErrs = @ + 1]
                   ELSE h
    /\ UNCHANGED <<P, s, Messages, Text, Errors, waiter, caller, ctx, crashed>>

\* sendError(err) from readLoop's error branch, then continue.
ReaderSendError(i) ==
    /\ ~crashed
    /\ reader[i].pc = "sendError"
    /\ SelectReady(Errors, ErrorsBuffer)
    /\ IF s.nErrors > 0
       THEN /\ reader' = [reader EXCEPT ![i] = [@ EXCEPT !.pc = "close", !.panicking = TRUE,
                                                         !.err = NoError]]
            /\ h' = [h EXCEPT !.sendOnClosed = TRUE]
            /\ UNCHANGED Errors
       ELSE /\ Errors' = TrySend(Errors, ErrorsBuffer, reader[i].err)
            /\ reader' = [reader EXCEPT ![i] = [@ EXCEPT !.pc = AfterSendError, !.err = NoError]]
            /\ h' = IF Errors' # Errors /\ reader[i].err # ErrRead
                    THEN [h EXCEPT !.errEnq = Append(@, reader[i].err)]
                    ELSE h
    /\ UNCHANGED <<L, P, s, Messages, Text, waiter, caller, ctx, crashed>>

\* sendMessage(*msg): buffered when Messages has room; otherwise the message
\* is dropped and sendError reports "buffer full", itself dropped when Errors
\* is full.  A send on a closed channel panics.
ReaderSendMessage(i) ==
    /\ ~crashed
    /\ reader[i].pc = "sendMessage"
    /\ SelectReady(Messages, s.bufSize)
    /\ LET m == reader[i].msg
           room == Len(Messages) < s.bufSize
       IN  IF s.nMessages > 0 \/ (~room /\ s.nErrors > 0)
           THEN /\ reader' = [reader EXCEPT ![i] = [@ EXCEPT !.pc = "close", !.panicking = TRUE,
                                                             !.msg = <<>>]]
                /\ h' = [h EXCEPT !.sendOnClosed = TRUE, !.attempted = Append(@, m.idx)]
                /\ UNCHANGED <<Messages, Errors>>
           ELSE /\ Messages' = TrySend(Messages, s.bufSize, m)
                /\ Errors' = IF room THEN Errors
                             ELSE TrySend(Errors, ErrorsBuffer, ErrBufferFull)
                /\ reader' = [reader EXCEPT ![i] =
                        [@ EXCEPT !.pc = AfterMessage(m),
                                  !.msg = IF AfterMessage(m) = "read" THEN <<>> ELSE m]]
                /\ h' = IF Messages' # Messages
                        THEN [h EXCEPT !.enq = Append(@, m.idx),
                                       !.attempted = Append(@, m.idx)]
                        ELSE [h EXCEPT !.drops = @ + 1,
                                       !.attempted = Append(@, m.idx),
                                       !.bufFull = @ + (IF Errors' # Errors THEN 1 ELSE 0),
                                       !.errEnq = IF Errors' # Errors
                                                  THEN Append(@, ErrBufferFull) ELSE @]
    /\ UNCHANGED <<L, P, s, Text, waiter, caller, ctx, crashed>>

\* sendText(text) for an assistant message with text.
ReaderSendText(i) ==
    /\ ~crashed
    /\ reader[i].pc = "sendText"
    /\ SelectReady(Text, s.bufSize)
    /\ LET m == reader[i].msg
       IN  IF s.nText > 0
           THEN /\ reader' = [reader EXCEPT ![i] = [@ EXCEPT !.pc = "close", !.panicking = TRUE,
                                                             !.msg = <<>>]]
                /\ h' = [h EXCEPT !.sendOnClosed = TRUE]
                /\ UNCHANGED Text
           ELSE /\ Text' = TrySend(Text, s.bufSize, ExtractText(m))
                /\ reader' = [reader EXCEPT ![i] =
                        [@ EXCEPT !.pc = AfterText(m),
                                  !.msg = IF AfterText(m) = "read" THEN <<>> ELSE m]]
                /\ h' = IF Text' # Text
                        THEN [h EXCEPT !.textEnq = Append(@, ExtractText(m))]
                        ELSE [h EXCEPT !.textDrops = @ + 1]
    /\ UNCHANGED <<L, P, s, Messages, Errors, waiter, caller, ctx, crashed>>

\* s.metrics = metricsFromMessage(msg), under s.mu, for a result message.
ReaderMetrics(i) ==
    /\ ~crashed
    /\ reader[i].pc = "metrics"
    /\ s' = [s EXCEPT !.metrics = metricsFromMessage(reader[i].msg)]
    /\ reader' = [reader EXCEPT ![i] = [@ EXCEPT !.pc = "read", !.msg = <<>>]]
    /\ UNCHANGED <<L, P, Messages, Text, Errors, waiter, caller, ctx, crashed, h>>

\* s.metrics.SessionID / Model from the system init message, under s.mu.
ReaderInit(i) ==
    /\ ~crashed
    /\ reader[i].pc = "init"
    /\ s' = [s EXCEPT !.metrics.SessionID = reader[i].msg.SessionID,
                      !.metrics.Model = reader[i].msg.Model]
    /\ reader' = [reader EXCEPT ![i] = [@ EXCEPT !.pc = "read", !.msg = <<>>]]
    /\ UNCHANGED <<L, P, Messages, Text, Errors, waiter, caller, ctx, crashed, h>>

\* readLoop's deferred s.close(), on return or while a panic unwinds; an
\* unrecovered panic then ends the program.
ReaderClose(i) ==
    /\ ~crashed
    /\ reader[i].pc = "close"
    /\ s' = SessionClose(s)
    /\ reader' = [reader EXCEPT ![i] = [@ EXCEPT !.pc = "done"]]
    /\ crashed' = reader[i].panicking
    /\ h' = [h EXCEPT !.closeCalls = @ + 1]
    /\ UNCHANGED <<L, P, Messages, Text, Errors, waiter, caller, ctx>>

\* Launcher.Wait on launcher j, from cmd.Wait's return on.
LauncherWaitReturn(j) == L' = [L EXCEPT ![j] = WaitFields(L[j])]

\* waitLoop: err := s.launcher.Wait(), up to the l.started check.  An
\* unstarted launcher answers ErrNotStarted at once.
WaiterEnter(i) ==
    /\ ~crashed
    /\ waiter[i].pc = "start"
    /\ s.launcher # 0
    /\ waiter' = [waiter EXCEPT ![i] =
            IF L[s.launcher].started
            THEN [@ EXCEPT !.pc = "cmdWait", !.l = s.launcher]
            ELSE [@ EXCEPT !.pc = "store", !.l = s.launcher, !.res = ErrNotStarted]]
    /\ UNCHANGED <<L, P, s, Messages, Text, Errors, reader, caller, ctx, crashed, h>>

\* waitLoop: cmd.Wait returns and Launcher.Wait runs to its return.
WaiterReturn(i) ==
    /\ ~crashed
    /\ waiter[i].pc = "cmdWait"
    /\ WaitReady(L[waiter[i].l], P[waiter[i].l])
    /\ LauncherWaitReturn(waiter[i].l)
    /\ waiter' = [waiter EXCEPT ![i] =
            [@ EXCEPT !.pc = "store", !.res = WaitOutcome(L[waiter[i].l], P[waiter[i].l])]]
    /\ UNCHANGED <<P, s, Messages, Text, Errors, reader, caller, ctx, crashed, h>>

\* waitLoop: s.err = err, under s.mu.
WaiterStore(i) ==
    /\ ~crashed
    /\ waiter[i].pc = "store"
    /\ s' = [s EXCEPT !.err = waiter[i].res]
    /\ waiter' = [waiter EXCEPT ![i] = [@ EXCEPT !.pc = "done"]]
    /\ UNCHANGED <<L, P, Messages, Text, Errors, reader, caller, ctx, crashed, h>>

\* Run going ahead whatever s.closed says.
RunNeverRefused(sv) == FALSE

\* Session.Run: if s.closed { return ErrSessionClosed }, under s.mu.
RunRefused(sv) == sv.closed

\* Session.Run, first part: ErrSessionClosed when s.closed, else
\* s.launcher = NewLauncher().  Collect* begin with the same call.
RunCall ==
    /\ ~crashed
    /\ caller.pc = "idle"
    /\ caller.kind # "Launcher"
    /\ caller.n < caller.maxRuns
    /\ IF RunRefused(s)
       THEN /\ caller' = [caller EXCEPT !.n = @ + 1, !.op = "Run", !.ret = ErrSessionClosed,
                                        !.pc = IF caller.kind = "Run" THEN "idle" ELSE "returned"]
            /\ UNCHANGED <<L, s>>
       ELSE /\ caller' = [caller EXCEPT !.n = @ + 1, !.op = "Run", !.pc = "runStart"]
            /\ s' = [s EXCEPT !.launcher = caller.n + 1]
            /\ L' = [L EXCEPT ![caller.n + 1] =
                                 [NewLauncher EXCEPT !.hookCfg = L[caller.n + 1].hookCfg]]
    /\ UNCHANGED <<P, Messages, Text, Errors, reader, waiter, ctx, crashed, h>>

\* Session.Run: s.launcher.Start(ctx, prompt, opts); on success go readLoop,
\* go waitLoop and return nil.
RunStart(env) ==
    /\ ~crashed
    /\ caller.pc = "runStart"
    /\ LauncherStart(s.launcher, env)
    /\ LET ret == StartCall(L[s.launcher], env).ret
       IN  IF ret = NoError
           THEN /\ reader' = [reader EXCEPT ![caller.n] = [IdleTask EXCEPT !.pc = "read"]]
                /\ waiter' = [waiter EXCEPT ![caller.n] = [@ EXCEPT !.pc = "start"]]
                /\ caller' = [caller EXCEPT !.ret = NoError,
                                            !.pc = IF caller.kind = "Run" THEN "idle" ELSE "select"]
           ELSE /\ caller' = [caller EXCEPT !.ret = ret, !.pc = "runClose"]
                /\ UNCHANGED <<reader, waiter>>
    /\ UNCHANGED <<s, Messages, Text, Errors, ctx, crashed, h>>

\* Run returning the Start error without s.close().
RunReturnUnclosed ==
    /\ ~crashed
    /\ caller.pc = "runClose"
    /\ caller' = [caller EXCEPT !.pc = IF caller.kind = "Run" THEN "idle" ELSE "returned"]
    /\ UNCHANGED <<L, P, s, Messages, Text, Errors, reader, waiter, ctx, crashed, h>>

\* Session.Run after a failed Start: s.close(); return err.
RunClose ==
    /\ ~crashed
    /\ caller.pc = "runClose"
    /\ s' = SessionClose(s)
    /\ caller' = [caller EXCEPT !.pc = IF caller.kind = "Run" THEN "idle" ELSE "returned"]
    /\ h' = [h EXCEPT !.closeCalls = @ + 1]
    /\ UNCHANGED <<L, P, Messages, Text, Errors, reader, waiter, ctx, crashed>>

\* Session.Kill(): ErrNotStarted while s.launcher is nil, else s.launcher.Kill().
SessionKill ==
    /\ ~crashed
    /\ caller.kind = "Run"
    /\ caller.pc = "idle"
    /\ LET r == IF s.launcher = 0
                THEN [ret |-> ErrNotStarted, killed |-> FALSE]
                ELSE KillCall(L[s.launcher], P[s.launcher])
       IN  /\ caller' = [caller EXCEPT !.op = "Kill", !.ret = r.ret]
           /\ P' = IF s.launcher = 0 THEN P ELSE [P EXCEPT ![s.launcher].killed = r.killed]
    /\ UNCHANGED <<L, s, Messages, Text, Errors, reader, waiter, ctx, crashed, h>>

\* Session.Interrupt(): ErrNotStarted while s.launcher is nil, else
\* s.launcher.Interrupt().
SessionInterrupt ==
    /\ ~crashed
    /\ caller.kind = "Run"
    /\ caller.pc = "idle"
    /\ LET r == IF s.launcher = 0
                THEN [ret |-> ErrNotStarted, interrupted |-> FALSE]
                ELSE InterruptCall(L[s.launcher], P[s.launcher])
       IN  /\ caller' = [caller EXCEPT !.op = "Interrupt", !.ret = r.ret]
           /\ P' = IF s.launcher = 0 THEN P
                   ELSE [P EXCEPT ![s.launcher].interrupted = r.interrupted]
    /\ UNCHANGED <<L, s, Messages, Text, Errors, reader, waiter, ctx, crashed, h>>

\* Session.Wait(): <-s.done; return s.Err().
SessionWait ==
    /\ ~crashed
    /\ caller.kind = "Run"
    /\ caller.pc = "idle"
    /\ s.nDone > 0
    /\ caller' = [caller EXCEPT !.op = "Wait", !.ret = s.err]
    /\ UNCHANGED <<L, P, s, Messages, Text, Errors, reader, waiter, ctx, crashed, h>>

\* --------------------------------------------------- the application's reads
\* msg := <-s.Messages by the application.
RecvMessage ==
    /\ ~crashed
    /\ caller.kind = "Run"
    /\ Messages # <<>>
    /\ Messages' = Tail(Messages)
    /\ h' = [h EXCEPT !.recv = Append(@, Head(Messages).idx)]
    /\ UNCHANGED <<L, P, s, Text, Errors, reader, waiter, caller, ctx, crashed>>

\* text := <-s.Text by the application.
RecvText ==
    /\ ~crashed
    /\ caller.kind = "Run"
    /\ Text # <<>>
    /\ Text' = Tail(Text)
    /\ h' = [h EXCEPT !.textRecv = Append(@, Head(Text))]
    /\ UNCHANGED <<L, P, s, Messages, Errors, reader, waiter, caller, ctx, crashed>>

\* err := <-s.Errors by the application.
RecvError ==
    /\ ~crashed
    /\ caller.kind = "Run"
    /\ Errors # <<>>
    /\ Errors' = Tail(Errors)
    /\ UNCHANGED <<L, P, s, Messages, Text, reader, waiter, caller, ctx, crashed, h>>

\* The idx of the messages in a buffer.
Idx(q) == [k \in 1..Len(q) |-> q[k].idx]

\* ------------------------------------------- CollectAll / CollectMessages
CollectKinds == {"CollectAll", "CollectMessages"}

RECURSIVE Concat(_)
\* strings.Builder: the texts written, concatenated.
Concat(q) == IF q = <<>> THEN "" ELSE Head(q) \o Concat(Tail(q))

\* A drain loop that returns without reading what is still buffered.
DrainNone(acc, q) == acc

\* CollectMessages: for msg := range s.Messages { messages = append(messages, msg) }
DrainMessages(acc, q) == acc \o Idx(q)

\* CollectAll: for text := range s.Text { builder.WriteString(text) }
DrainText(acc, q) == acc \o Concat(q)

\* case msg, ok := <-s.Messages (CollectMessages), case text, ok := <-s.Text
\* (CollectAll), with a value: accumulate it and select again.
CollectRecv ==
    /\ ~crashed
    /\ caller.pc = "select"
    /\ IF caller.kind = "CollectMessages"
       THEN /\ Messages # <<>>
            /\ Messages' = Tail(Messages)
            /\ caller' = [caller EXCEPT !.acc = Append(@, Head(Messages).idx)]
            /\ UNCHANGED Text
       ELSE /\ Text # <<>>
            /\ Text' = Tail(Text)
            /\ caller' = [caller EXCEPT !.acc = @ \o Head(Text)]
            /\ UNCHANGED Messages
    /\ UNCHANGED <<L, P, s, Errors, reader, waiter, ctx, crashed, h>>

\* The same case with !ok (the channel is closed and empty): return what was
\* accumulated and s.Err().
CollectClosed ==
    /\ ~crashed
    /\ caller.pc = "select"
    /\ IF caller.kind = "CollectMessages"
       THEN Messages = <<>> /\ s.nMessages > 0
       ELSE Text = <<>> /\ s.nText > 0
    /\ caller' = [caller EXCEPT !.pc = "returned", !.ret = s.err, !.via = "closed"]
    /\ UNCHANGED <<L, P, s, Messages, Text, Errors, reader, waiter, ctx, crashed, h>>

\* case <-s.Errors with a value: ignored.
CollectErrors ==
    /\ ~crashed
    /\ caller.pc = "select"
    /\ Errors # <<>>
    /\ Errors' = Tail(Errors)
    /\ UNCHANGED <<L, P, s, Messages, Text, reader, waiter, caller, ctx, crashed, h>>

\* case <-s.Done(): drain what is still buffered (the range ends because the
\* channel is closed), then return it with s.Err().
CollectDone ==
    /\ ~crashed
    /\ caller.pc = "select"
    /\ s.nDone > 0
    /\ IF caller.kind = "CollectMessages"
       THEN /\ s.nMessages > 0
            /\ caller' = [caller EXCEPT !.pc = "returned", !.ret = s.err, !.via = "done",
                                        !.acc = DrainMessages(@, Messages),
                                        !.drained = Len(Messages)]
            /\ Messages' = <<>>
            /\ UNCHANGED Text
       ELSE /\ s.nText > 0
            /\ caller' = [caller EXCEPT !.pc = "returned", !.ret = s.err, !.via = "done",
                                        !.acc = DrainText(@, Text),
                                        !.drained = Len(Text)]
            /\ Text' = <<>>
            /\ UNCHANGED Messages
    /\ UNCHANGED <<L, P, s, Errors, reader, waiter, ctx, crashed, h>>

\* case <-ctx.Done(): s.Kill(); return what was accumulated and ctx.Err().
CollectCancel ==
    /\ ~crashed
    /\ caller.pc = "select"
    /\ ctx.cancelled
    /\ P' = [P EXCEPT ![s.launcher].killed = KillCall(L[s.launcher], P[s.launcher]).killed]
    /\ caller' = [caller EXCEPT !.pc = "returned", !.ret = CtxErr, !.via = "ctx"]
    /\ UNCHANGED <<L, s, Messages, Text, Errors, reader, waiter, ctx, crashed, h>>

CollectStep ==
    CollectRecv \/ CollectClosed \/ CollectErrors \/ CollectDone \/ CollectCancel

\* ------------------------------------------------------------ RunAndCollect
\* result := &Result{}: the metadata fields the model follows.
ZeroResult == [SessionID |-> "", Model |-> "", NumTurns |-> 0]

\* The Messages case of RunAndCollect's select, for one message: the metadata
\* of a result message, then the session info of the init message.
ResultFromMessage(result, msg) ==
    LET r == IF msg.Type = "result"
             THEN [result EXCEPT !.SessionID = IF msg.SessionID # "" THEN msg.SessionID ELSE @,
                                 !.Model = IF msg.Model # "" THEN msg.Model ELSE @,
                                 !.NumTurns = msg.NumTurns]
             ELSE result
    IN  IF msg.Type = "system" /\ msg.Subtype = "init"
        THEN [r EXCEPT !.SessionID = IF msg.SessionID # "" THEN msg.SessionID ELSE @,
                       !.Model = IF msg.Model # "" THEN msg.Model ELSE @]
        ELSE r

\* The body of the drain loop under case <-s.Done(), for one message.
ResultFromDrained(result, msg) ==
    IF msg.Type = "result" THEN [result EXCEPT !.NumTurns = msg.NumTurns] ELSE result

RECURSIVE DrainResult(_, _)
\* for msg := range s.Messages { ... } over what is still buffered.
DrainResult(result, q) ==
    IF q = <<>> THEN result
    ELSE DrainResult(ResultFromDrained(result, Head(q)), Tail(q))

\* case msg, ok := <-s.Messages with a value.
RunAndCollectRecv ==
    /\ ~crashed
    /\ caller.kind = "RunAndCollect"
    /\ caller.pc = "select"
    /\ Messages # <<>>
    /\ Messages' = Tail(Messages)
    /\ caller' = [caller EXCEPT !.acc = Append(@, Head(Messages).idx),
                                !.result = ResultFromMessage(@, Head(Messages))]
    /\ UNCHANGED <<L, P, s, Text, Errors, reader, waiter, ctx, crashed, h>>

\* The same case with !ok: return the result and s.Err().
RunAndCollectClosed ==
    /\ ~crashed
    /\ caller.kind = "RunAndCollect"
    /\ caller.pc = "select"
    /\ Messages = <<>>
    /\ s.nMessages > 0
    /\ caller' = [caller EXCEPT !.pc = "returned", !.ret = s.err, !.via = "closed"]
    /\ UNCHANGED <<L, P, s, Messages, Text, Errors, reader, waiter, ctx, crashed, h>>

\* case <-s.Done(): drain s.Messages, then return the result and s.Err().
RunAndCollectDone ==
    /\ ~crashed
    /\ caller.kind = "RunAndCollect"
    /\ caller.pc = "select"
    /\ s.nDone > 0
    /\ s.nMessages > 0
    /\ caller' = [caller EXCEPT !.pc = "returned", !.ret = s.err, !.via = "done",
                                !.acc = DrainMessages(@, Messages),
                                !.drained = Len(Messages),
                                !.result = DrainResult(@, Messages)]
    /\ Messages' = <<>>
    /\ UNCHANGED <<L, P, s, Text, Errors, reader, waiter, ctx, crashed, h>>

\* ------------------------------------------------- a direct Launcher client
\* launcher.Start(ctx, prompt, opts)
LStart(env) ==
    /\ ~crashed
    /\ caller.kind = "Launcher"
    /\ caller.pc = "idle"
    /\ caller.n < MaxOps
    /\ LauncherStart(1, env)
    /\ caller' = [caller EXCEPT !.n = @ + 1, !.op = "Start", !.ret = StartCall(L[1], env).ret]
    /\ UNCHANGED <<s, Messages, Text, Errors, reader, waiter, ctx, crashed, h>>

\* launcher.ReadMessage(); after an empty line the call goes on inside
\* ReadMessage (pc inRead) until it has something to return.
LRead ==
    /\ ~crashed
    /\ caller.kind = "Launcher"
    /\ \/ caller.pc = "idle" /\ caller.n < MaxOps
       \/ caller.pc = "inRead"
    /\ LET r == ReadMessage(L[1], P[1])
           n == IF caller.pc = "idle" THEN caller.n + 1 ELSE caller.n
       IN  /\ r.kind # "block"
           /\ L' = [L EXCEPT ![1] = r.l]
           /\ crashed' = (r.kind = "panic")
           /\ caller' = IF r.kind = "skip"
                        THEN [caller EXCEPT !.n = n, !.op = "ReadMessage", !.pc = "inRead"]
                        ELSE [caller EXCEPT !.n = n, !.op = "ReadMessage", !.pc = "idle",
                                            !.ret = r.kind]
    /\ UNCHANGED <<P, s, Messages, Text, Errors, reader, waiter, ctx, h>>

\* launcher.Wait(), up to the l.started check.
LWaitCall ==
    /\ ~crashed
    /\ caller.kind = "Launcher"
    /\ caller.pc = "idle"
    /\ caller.n < MaxOps
    /\ caller' = IF L[1].started
                 THEN [caller EXCEPT !.n = @ + 1, !.op = "Wait", !.pc = "inWait"]
                 ELSE [caller EXCEPT !.n = @ + 1, !.op = "Wait", !.ret = ErrNotStarted]
    /\ UNCHANGED <<L, P, s, Messages, Text, Errors, reader, waiter, ctx, crashed, h>>

\* launcher.Wait(): cmd.Wait returns and Wait runs to its return.
LWaitReturn ==
    /\ ~crashed
    /\ caller.pc = "inWait"
    /\ WaitReady(L[1], P[1])
    /\ LauncherWaitReturn(1)
    /\ caller' = [caller EXCEPT !.pc = "idle", !.ret = WaitOutcome(L[1], P[1]),
                                !.waits = Append(@, WaitOutcome(L[1], P[1]))]
    /\ UNCHANGED <<P, s, Messages, Text, Errors, reader, waiter, ctx, crashed, h>>

\* launcher.Kill()
LKill ==
    /\ ~crashed
    /\ caller.kind = "Launcher"
    /\ caller.pc = "idle"
    /\ caller.n < MaxOps
    /\ P' = [P EXCEPT ![1].killed = KillCall(L[1], P[1]).killed]
    /\ caller' = [caller EXCEPT !.n = @ + 1, !.op = "Kill", !.ret = KillCall(L[1], P[1]).ret]
    /\ UNCHANGED <<L, s, Messages, Text, Errors, reader, waiter, ctx, crashed, h>>

\* launcher.Interrupt()
LInterrupt ==
    /\ ~crashed
    /\ caller.kind = "Launcher"
    /\ caller.pc = "idle"
    /\ caller.n < MaxOps
    /\ P' = [P EXCEPT ![1].interrupted = InterruptCall(L[1], P[1]).interrupted]
    /\ caller' = [caller EXCEPT !.n = @ + 1, !.op = "Interrupt",
                                !.ret = InterruptCall(L[1], P[1]).ret]
    /\ UNCHANGED <<L, s, Messages, Text, Errors, reader, waiter, ctx, crashed, h>>

\* ---------------------------------------------------------- specifications
\* Every script of at most n lines.
Scripts(n) == UNION {[1..k -> LineKinds] : k \in 0..n}

\* The same with the assistant lines that carry tool calls.
ToolScripts(n) == UNION {[1..k -> LineKinds \cup ToolLineKinds] : k \in 0..n}

NewHistory ==
    [parsed       |-> <<>>,   \* idx of the messages ReadMessage returned, in order
     enq          |-> <<>>,   \* idx of the messages buffered on Messages, in order
     attempted    |-> <<>>,   \* idx of the messages sendMessage was called with, in order
     recv         |-> <<>>,   \* idx of the messages the application received
     drops        |-> 0,      \* messages dropped by sendMessage
     bufFull      |-> 0,      \* "buffer full" errors buffered on Errors
     errEnq       |-> <<>>,   \* the parse and buffer-full errors buffered on Errors, in order
     textEnq      |-> <<>>,   \* texts buffered on Text
     textRecv     |-> <<>>,   \* texts the application received
     textDrops    |-> 0,
     parseErrs    |-> 0,      \* ParseErrors returned by ReadMessage
     readErr      |-> FALSE,  \* ReadMessage returned a stdout read error
     sendOnClosed |-> FALSE,  \* a send hit a closed channel
     closeCalls   |-> 0]      \* calls of Session.close

NewCaller(kind, maxRuns) ==
    [kind |-> kind, pc |-> "idle", n |-> 0, maxRuns |-> maxRuns, op |-> "", ret |-> NoError,
     acc |-> IF kind = "CollectAll" THEN "" ELSE <<>>, drained |-> 0, via |-> "",
     waits |-> <<>>, result |-> ZeroResult]

NewWaiter == [pc |-> "none", l |-> 0, res |-> NoError]

\* The state after NewSession(cfg), before any call.  The process of launcher
\* 1 may write any of the scripts and exit with any of the codes; the
\* processes of later launchers do the same when `same`, and write nothing
\* otherwise.  cfg.ChannelBuffer is any of bufs, and opts.Timeout is set
\* (> 0) or not as timeouts says.
InitFull(kind, maxRuns, scripts, codes, bufs, same, timeouts) ==
    /\ L = [i \in Launchers |-> NewLauncher]
    /\ \E script \in scripts, code \in codes :
          P = [i \in Launchers |-> IF i = 1 \/ same THEN NewProcess(script, code)
                                   ELSE NewProcess(<<>>, 0)]
    /\ \E b \in bufs : s = NewSession(b)
    /\ Messages = <<>>
    /\ Text = <<>>
    /\ Errors = <<>>
    /\ reader = [i \in Launchers |-> IdleTask]
    /\ waiter = [i \in Launchers |-> NewWaiter]
    /\ caller = NewCaller(kind, maxRuns)
    /\ \E t \in timeouts :
          ctx = [cancelled |-> FALSE, whileWaiting |-> FALSE, timeout |-> t, expired |-> FALSE]
    /\ crashed = FALSE
    /\ h = NewHistory

\* The same without a Timeout.
InitWith(kind, maxRuns, scripts, codes, bufs, same) ==
    InitFull(kind, maxRuns, scripts, codes, bufs, same, {FALSE})

\* The steps of the subprocess, the reader task and the waiter task of run i.
ProcStep(i) == ProcWrite(i) \/ ProcExit(i)
ReaderStep(i) ==
    \/ ReaderRead(i) \/ ReaderSendError(i) \/ ReaderSendMessage(i)
    \/ ReaderSendText(i) \/ ReaderMetrics(i) \/ ReaderInit(i) \/ ReaderClose(i)
WaiterStep(i) == WaiterEnter(i) \/ WaiterReturn(i) \/ WaiterStore(i)

\* One Session, one Run call, the application receiving from the channels
\* whenever (and if ever) it likes.
Init == InitWith("Run", 1, Scripts(MaxLines), ExitCodes, 0..MaxBuf, FALSE)

Next ==
    \/ RunCall
    \/ \E env \in StartEnvs : RunStart(env)
    \/ RunClose
    \/ \E i \in Launchers : ProcStep(i) \/ ReaderStep(i) \/ WaiterStep(i)
    \/ RecvMessage
    \/ RecvText
    \/ RecvError

Spec == Init /\ [][Next]_vars

\* The same, with the scheduling the Go runtime and the OS give: a goroutine
\* that can run does run, and so does the subprocess.  Nothing is assumed of
\* the application: it may never receive.
FairSpec ==
    /\ Spec
    /\ \A i \in Launchers :
          WF_vars(ProcStep(i)) /\ WF_vars(ReaderStep(i)) /\ WF_vars(WaiterStep(i))

\* One Session driven by CollectAll or CollectMessages, under a context that
\* may be cancelled at any moment.
\* The subprocess exits with status 1 unless it is killed first.
InitCollect ==
    \E kind \in CollectKinds : InitWith(kind, 1, Scripts(MaxLines), {1}, 0..MaxBuf, FALSE)

NextCollect ==
    \/ RunCall
    \/ \E env \in StartEnvs : RunStart(env)
    \/ RunClose
    \/ \E i \in Launchers : ProcStep(i) \/ ReaderStep(i) \/ WaiterStep(i) \/ CtxKill(i)
    \/ Cancel
    \/ CollectStep

SpecCollect == InitCollect /\ [][NextCollect]_vars

\* One Session on which Run is called up to MaxRuns times, whatever became of
\* the earlier runs.  Every subprocess exits with status 0 without writing a
\* line, so a reader only ever meets end of stream, a read error or a nil
\* scanner; nobody receives from the channels.
InitRuns == InitWith("Run", MaxRuns, {<<>>}, {0}, {0}, TRUE)

NextRuns ==
    \/ RunCall
    \/ \E env \in StartEnvs : RunStart(env)
    \/ RunClose
    \/ \E i \in Launchers :
          \/ ProcExit(i)
          \/ ReaderRead(i) \/ ReaderSendError(i) \/ ReaderClose(i)
          \/ WaiterStep(i)

SpecRuns == InitRuns /\ [][NextRuns]_vars

\* A Launcher used directly: Start, ReadMessage, Wait and Kill in any order.
InitLauncher == InitWith("Launcher", 0, ToolScripts(MaxLines), ExitCodes, {0}, FALSE)

NextLauncher ==
    \/ \E env \in StartEnvs : LStart(env)
    \/ LRead
    \/ LWaitCall
    \/ LWaitReturn
    \/ LKill
    \/ ProcStep(1)

SpecLauncher == InitLauncher /\ [][NextLauncher]_vars

\* The control operations, on a Launcher used directly or on a Session:
\* Start (with and without an MCP config file), Wait, Interrupt, Kill, and the
\* goroutine that collects stderr.  The subprocess writes nothing to stdout.
InitControl ==
    \/ InitWith("Launcher", 0, {<<>>}, ExitCodes, {0}, FALSE)
    \/ InitWith("Run", 1, {<<>>}, ExitCodes, {0}, FALSE)

NextControl ==
    \/ \E env \in StartEnvs \cup MCPEnvs : LStart(env)
    \/ LWaitCall
    \/ LWaitReturn
    \/ LKill
    \/ LInterrupt
    \/ RunCall
    \/ \E env \in StartEnvs : RunStart(env)
    \/ RunClose
    \/ SessionKill
    \/ SessionInterrupt
    \/ \E i \in Launchers :
          \/ ProcWriteErr(i) \/ ProcExit(i)
          \/ StderrRead(i) \/ StderrReturn(i) \/ StderrStore(i)
          \/ ReaderRead(i) \/ ReaderSendError(i) \/ ReaderClose(i)
          \/ WaiterStep(i)

SpecControl == InitControl /\ [][NextControl]_vars

\* One run with opts.Timeout set, through Run (and then Session.Wait),
\* CollectAll or CollectMessages.  The caller's context is never cancelled;
\* the timeout may elapse at any moment while the process runs.
InitTimeout ==
    \E kind \in {"Run"} \cup CollectKinds :
        InitFull(kind, 1, Scripts(1), {0}, {0}, FALSE, {TRUE})

NextTimeout ==
    \/ RunCall
    \/ \E env \in StartEnvs : RunStart(env)
    \/ RunClose
    \/ SessionWait
    \/ \E i \in Launchers :
          ProcStep(i) \/ ReaderStep(i) \/ WaiterStep(i) \/ CtxKill(i) \/ TimeoutExpire(i)
    \/ CollectRecv \/ CollectClosed \/ CollectErrors \/ CollectDone

SpecTimeout == InitTimeout /\ [][NextTimeout]_vars

\* One Session driven by RunAndCollect, under a context that is not cancelled.
InitRunAndCollect ==
    InitWith("RunAndCollect", 1, Scripts(MaxLines), {0}, 0..MaxBuf, FALSE)

SpecRunAndCollect ==
    /\ InitRunAndCollect
    /\ [][\/ RunCall
          \/ \E env \in StartEnvs : RunStart(env)
          \/ RunClose
          \/ \E i \in Launchers : ProcStep(i) \/ ReaderStep(i) \/ WaiterStep(i)
          \/ RunAndCollectRecv
          \/ RunAndCollectClosed
          \/ CollectErrors
          \/ RunAndCollectDone]_vars

\* The Hooks values tried: a nil bundle, and bundles with no callback, with
\* one callback, with all callbacks but one, and with all of them.
HookConfigs ==
    {NilHooks, AllHooks, [bundle |-> TRUE, set |-> {}]}
        \cup {[bundle |-> TRUE, set |-> {n}] : n \in HookNames}
        \cup {[bundle |-> TRUE, set |-> HookNames \ {n}] : n \in HookNames}

\* Scripts of lines that between them make ReadMessage call every invoke*.
HookScripts(n) == UNION {[1..k -> {"textTool", "result", "bad"}] : k \in 0..n}

\* A Launcher used directly (Start, ReadMessage, Wait in any order) with any
\* of the Hooks values in its options.
InitHooks ==
    /\ \E cfg \in HookConfigs :
          L = [i \in Launchers |-> [NewLauncher EXCEPT !.hookCfg = cfg]]
    /\ \E script \in HookScripts(MaxLines) :
          P = [i \in Launchers |-> NewProcess(script, 0)]
    /\ s = NewSession(0)
    /\ Messages = <<>>
    /\ Text = <<>>
    /\ Errors = <<>>
    /\ reader = [i \in Launchers |-> IdleTask]
    /\ waiter = [i \in Launchers |-> NewWaiter]
    /\ caller = NewCaller("Launcher", 0)
    /\ ctx = [cancelled |-> FALSE, whileWaiting |-> FALSE, timeout |-> FALSE,
              expired |-> FALSE]
    /\ crashed = FALSE
    /\ h = NewHistory

SpecHooks ==
    /\ InitHooks
    /\ [][\/ \E env \in StartEnvs : LStart(env)
          \/ LRead
          \/ LWaitCall
          \/ LWaitReturn
          \/ ProcStep(1)]_vars

\* ------------------------------------------------- the child's environment
\* The variables the model follows.
EnvKeys == {"ANTHROPIC_API_KEY", "MAX_THINKING_TOKENS", "HOME"}

\* One "key=value" element of an environment slice.
EnvEntry(k, v) == [key |-> k, value |-> v]

\* os.Environ(): at most n variables, no key twice.
Environs(n) ==
    {e \in UNION {[1..k -> [key : EnvKeys, value : {"old"}]] : k \in 0..n} :
        \A i, j \in 1..Len(e) : e[i].key = e[j].key => i = j}

\* The first position of env whose element starts with key + "=", 0 if none.
FirstWithKey(env, key) ==
    IF \E i \in 1..Len(env) : env[i].key = key
    THEN CHOOSE i \in 1..Len(env) :
            env[i].key = key /\ \A j \in 1..(i - 1) : env[j].key # key
    ELSE 0

\* An assignment that leaves a key that is already set as it is.
withEnvVarKeep(env, key, value) ==
    IF FirstWithKey(env, key) # 0 THEN env ELSE Append(env, EnvEntry(key, value))

\* withEnvVar(env, key, value): the first element for key is replaced, and
\* key=value is appended when there is none.
withEnvVar(env, key, value) ==
    IF FirstWithKey(env, key) # 0
    THEN [env EXCEPT ![FirstWithKey(env, key)] = EnvEntry(key, value)]
    ELSE Append(env, EnvEntry(key, value))

RECURSIVE MergeEnv(_, _, _)
\* for k, v := range opts.Env { env = withEnvVar(env, k, v) }, the map being
\* ranged over in the given order.
MergeEnv(env, m, order) ==
    IF order = <<>> THEN env
    ELSE MergeEnv(withEnvVar(env, Head(order), m[Head(order)]), m, Tail(order))

\* Launcher.Start building l.cmd.Env: os.Environ(), then APIKey, then
\* MaxThinkingTokens (strconv.Itoa), then opts.Env.
BuildEnv(inherited, opts, order) ==
    LET e1 == IF opts.APIKey # ""
              THEN withEnvVar(inherited, "ANTHROPIC_API_KEY", opts.APIKey)
              ELSE inherited
        e2 == IF opts.MaxThinkingTokens > 0
              THEN withEnvVar(e1, "MAX_THINKING_TOKENS", ToString(opts.MaxThinkingTokens))
              ELSE e1
    IN  MergeEnv(e2, opts.Env, order)

\* The orders in which a Go map with the keys S may be ranged over.
Orders(S) ==
    {q \in [1..Cardinality(S) -> S] : \A i, j \in 1..Cardinality(S) : q[i] = q[j] => i = j}

\* The LaunchOptions fields that reach the environment.
EnvOptions ==
    {o \in [APIKey : {"", "key"}, MaxThinkingTokens : {-1, 0, 8},
            Env : UNION {[S -> {"new"}] : S \in SUBSET EnvKeys}] : TRUE}

\* A pure function applied by the application: its arguments and its result.
NewCall(kind, arg) ==
    [kind |-> kind, pc |-> "idle", n |-> 0, maxRuns |-> 0, op |-> "", ret |-> NoError,
     arg |-> arg]

\* Everything but the caller as NewSession and NewLauncher leave it.
InitPure(kind, args) ==
    /\ L = [i \in Launchers |-> NewLauncher]
    /\ P = [i \in Launchers |-> NewProcess(<<>>, 0)]
    /\ s = NewSession(0)
    /\ Messages = <<>>
    /\ Text = <<>>
    /\ Errors = <<>>
    /\ reader = [i \in Launchers |-> IdleTask]
    /\ waiter = [i \in Launchers |-> NewWaiter]
    /\ \E arg \in args : caller = NewCall(kind, arg)
    /\ ctx = [cancelled |-> FALSE, whileWaiting |-> FALSE, timeout |-> FALSE, expired |-> FALSE]
    /\ crashed = FALSE
    /\ h = NewHistory

\* Start builds the environment of the child.
BuildEnvCall ==
    /\ caller.kind = "Env"
    /\ caller.pc = "idle"
    /\ \E order \in Orders(DOMAIN caller.arg.opts.Env) :
          caller' = [caller EXCEPT !.pc = "returned", !.op = "BuildEnv",
                         !.ret = BuildEnv(caller.arg.inherited, caller.arg.opts, order)]
    /\ UNCHANGED <<L, P, s, Messages, Text, Errors, reader, waiter, ctx, crashed, h>>

\* Start building the environment, for every inherited environment and
\* every setting of the options.
SpecEnv ==
    /\ InitPure("Env", [inherited : Environs(MaxEnv), opts : EnvOptions])
    /\ [][BuildEnvCall]_vars

\* -------------------------------------------------------------- buildArgs
\* LaunchOptions{}: every field buildArgs reads, at its zero value.  Lists are
\* sequences, the Agents map is the sequence of its entries, MaxBudgetUSD is
\* counted in cents, and a pointer or interface is "nil" or what it holds.
ZeroOptions ==
    [PermissionMode |-> "", SkipPermissions |-> FALSE,
     AllowDangerouslySkipPermissions |-> FALSE,
     AllowedTools |-> <<>>, DisallowedTools |-> <<>>, PermissionPromptTool |-> "",
     Model |-> "", FallbackModel |-> "", MaxBudgetUSD |-> 0, Betas |-> <<>>,
     SystemPrompt |-> "", SystemPromptFile |-> "",
     AppendSystemPrompt |-> "", AppendSystemPromptFile |-> "",
     Resume |-> "", Continue |-> FALSE, ForkSession |-> FALSE, SessionID |-> "",
     NoSessionPersistence |-> FALSE, MaxTurns |-> 0,
     Tools |-> <<>>, Agents |-> <<>>, DisableSlashCommands |-> FALSE,
     JSONSchema |-> "nil", IncludePartialMessages |-> FALSE, InputFormat |-> "",
     SettingSources |-> <<>>, Settings |-> "", PluginDirs |-> <<>>, AddDirs |-> <<>>,
     StrictMCP |-> FALSE, Verbose |-> FALSE, Debug |-> "", Chrome |-> "nil",
     AdditionalArgs |-> <<>>]

\* Values a caller may give the fields: <<field, value>>.
OptionSettings ==
    {<<"PermissionMode", "plan">>, <<"SkipPermissions", TRUE>>,
     <<"AllowDangerouslySkipPermissions", TRUE>>,
     <<"AllowedTools", <<"Read", "Bash">> >>, <<"DisallowedTools", <<"Write">> >>,
     <<"PermissionPromptTool", "mcp__auth">>,
     <<"Model", "opus">>, <<"FallbackModel", "sonnet">>,
     <<"MaxBudgetUSD", 150>>, <<"MaxBudgetUSD", -5>>, <<"Betas", <<"b1", "b2">> >>,
     <<"SystemPrompt", "be brief">>, <<"SystemPromptFile", "sys.txt">>,
     <<"AppendSystemPrompt", "and kind">>, <<"AppendSystemPromptFile", "app.txt">>,
     <<"Resume", "sess-1">>, <<"Continue", TRUE>>, <<"ForkSession", TRUE>>,
     <<"SessionID", "uuid-1">>, <<"NoSessionPersistence", TRUE>>,
     <<"MaxTurns", 3>>, <<"Tools", <<"Bash", "Edit">> >>,
     <<"Agents", <<"reviewer">> >>, <<"DisableSlashCommands", TRUE>>,
     <<"JSONSchema", "schema">>, <<"JSONSchema", "unmarshalable">>,
     <<"IncludePartialMessages", TRUE>>, <<"InputFormat", "text">>,
     <<"SettingSources", <<"user", "project">> >>, <<"Settings", "settings.json">>,
     <<"PluginDirs", <<"plugins">> >>, <<"AddDirs", <<"a", "b">> >>,
     <<"StrictMCP", TRUE>>, <<"Verbose", TRUE>>, <<"Debug", "api">>,
     <<"Chrome", "true">>, <<"Chrome", "false">>,
     <<"AdditionalArgs", <<"--foo">> >>,
     <<"AdditionalArgs", <<"--output-format", "json">> >>}

RECURSIVE SettingSets(_)
\* The sets of at most n settings, no field twice.
SettingSets(n) ==
    IF n = 0 THEN {{}}
    ELSE SettingSets(n - 1) \cup
         {T \cup {st} : <<T, st>> \in
             {pr \in SettingSets(n - 1) \X OptionSettings :
                 \A a \in pr[1] : a[1] # pr[2][1]}}

\* The LaunchOptions values with at most n fields set.
LaunchOptionsSet(n) ==
    {[f \in DOMAIN ZeroOptions |->
         IF \E st \in S : st[1] = f THEN (CHOOSE st \in S : st[1] = f)[2]
         ELSE ZeroOptions[f]] : S \in SettingSets(n)}

RECURSIVE Join(_, _)
\* strings.Join(list, sep)
Join(list, sep) ==
    IF list = <<>> THEN ""
    ELSE IF Len(list) = 1 THEN list[1]
    ELSE list[1] \o sep \o Join(Tail(list), sep)

\* for _, v := range list { args = append(args, flag, v) }
FlagEach(flag, list) ==
    [i \in 1..(2 * Len(list)) |-> IF i % 2 = 1 THEN flag ELSE list[i \div 2]]

\* strconv.FormatFloat(x, 'f', 2, 64) of a positive amount given in cents.
FormatUSD(cents) ==
    ToString(cents \div 100) \o "." \o (IF cents % 100 < 10 THEN "0" ELSE "")
        \o ToString(cents % 100)

\* json.Marshal of a JSONSchema value: [out, err].
MarshalSchema(v) ==
    IF v = "unmarshalable" THEN [out |-> "", err |-> "marshal json schema"]
    ELSE [out |-> "{" \o v \o "}", err |-> NoError]

\* The prompt put before the additional arguments.
FinalArgsPromptFirst(opts, prompt) == <<prompt>> \o opts.AdditionalArgs

\* args = append(args, opts.AdditionalArgs...); args = append(args, prompt)
FinalArgs(opts, prompt) == opts.AdditionalArgs \o <<prompt>>

Flag(cond, args) == IF cond THEN args ELSE <<>>

\* buildArgs(prompt, opts, mcpConfigFile): [args, err].
buildArgs(prompt, opts, mcpConfigFile) ==
    LET args ==
            <<"--print", "--output-format", "stream-json", "--verbose">>
            \o (IF opts.PermissionMode # ""
                THEN <<"--permission-mode", opts.PermissionMode>>
                ELSE Flag(opts.SkipPermissions, <<"--dangerously-skip-permissions">>))
            \o Flag(opts.AllowDangerouslySkipPermissions,
                    <<"--allow-dangerously-skip-permissions">>)
            \o FlagEach("--allowedTools", opts.AllowedTools)
            \o FlagEach("--disallowedTools", opts.DisallowedTools)
            \o Flag(opts.PermissionPromptTool # "",
                    <<"--permission-prompt-tool", opts.PermissionPromptTool>>)
            \o Flag(opts.Model # "", <<"--model", opts.Model>>)
            \o Flag(opts.FallbackModel # "", <<"--fallback-model", opts.FallbackModel>>)
            \o Flag(opts.MaxBudgetUSD > 0,
                    <<"--max-budget-usd", FormatUSD(opts.MaxBudgetUSD)>>)
            \o Flag(Len(opts.Betas) > 0, <<"--betas", Join(opts.Betas, ",")>>)
            \o (IF opts.SystemPrompt # ""
                THEN <<"--system-prompt", opts.SystemPrompt>>
                ELSE Flag(opts.SystemPromptFile # "",
                          <<"--system-prompt-file", opts.SystemPromptFile>>))
            \o Flag(opts.AppendSystemPrompt # "",
                    <<"--append-system-prompt", opts.AppendSystemPrompt>>)
            \o Flag(opts.AppendSystemPromptFile # "",
                    <<"--append-system-prompt-file", opts.AppendSystemPromptFile>>)
            \o Flag(opts.Resume # "", <<"--resume", opts.Resume>>)
            \o Flag(opts.Continue, <<"--continue">>)
            \o Flag(opts.ForkSession, <<"--fork-session">>)
            \o Flag(opts.SessionID # "", <<"--session-id", opts.SessionID>>)
            \o Flag(opts.NoSessionPersistence, <<"--no-session-persistence">>)
            \o Flag(opts.MaxTurns > 0, <<"--max-turns", ToString(opts.MaxTurns)>>)
            \o Flag(Len(opts.Tools) > 0, <<"--tools", Join(opts.Tools, ",")>>)
            \o Flag(Len(opts.Agents) > 0, <<"--agents", "{" \o Join(opts.Agents, ",") \o "}">>)
            \o Flag(opts.DisableSlashCommands, <<"--disable-slash-commands">>)
            \o Flag(opts.JSONSchema # "nil",
                    <<"--json-schema", MarshalSchema(opts.JSONSchema).out>>)
            \o Flag(opts.IncludePartialMessages, <<"--include-partial-messages">>)
            \o Flag(opts.InputFormat # "", <<"--input-format", opts.InputFormat>>)
            \o Flag(Len(opts.SettingSources) > 0,
                    <<"--setting-sources", Join(opts.SettingSources, ",")>>)
            \o Flag(opts.Settings # "", <<"--settings", opts.Settings>>)
            \o FlagEach("--plugin-dir", opts.PluginDirs)
            \o FlagEach("--add-dir", opts.AddDirs)
            \o Flag(mcpConfigFile # "", <<"--mcp-config", mcpConfigFile>>)
            \o Flag(opts.StrictMCP, <<"--strict-mcp-config">>)
            \o Flag(opts.Debug # "", <<"--debug", opts.Debug>>)
            \o (IF opts.Chrome = "nil" THEN <<>>
                ELSE IF opts.Chrome = "true" THEN <<"--chrome">> ELSE <<"--no-chrome">>)
            \o FinalArgs(opts, prompt)
    IN  IF opts.JSONSchema # "nil" /\ MarshalSchema(opts.JSONSchema).err # NoError
        THEN [args |-> <<>>, err |-> MarshalSchema(opts.JSONSchema).err]
        ELSE [args |-> args, err |-> NoError]

\* buildArgs(prompt, opts, mcpConfigFile) called.
BuildArgsCall ==
    /\ caller.kind = "Args"
    /\ caller.pc = "idle"
    /\ caller' = [caller EXCEPT !.pc = "returned", !.op = "buildArgs",
                      !.ret = buildArgs(caller.arg.prompt, caller.arg.opts,
                                        caller.arg.mcpConfigFile)]
    /\ UNCHANGED <<L, P, s, Messages, Text, Errors, reader, waiter, ctx, crashed, h>>

\* buildArgs on every prompt, options value and MCP config path tried.
SpecArgs ==
    /\ InitPure("Args", [prompt : {"hello world", ""},
                         opts : LaunchOptionsSet(MaxFlags),
                         mcpConfigFile : {"", "/tmp/claude-mcp-1.json"}])
    /\ [][BuildArgsCall]_vars

\* ---------------------------------------------------- extraction functions
\* A value of type any decoded from JSON, as far as the extractors look at
\* it: absent from its map, a string, a number, an array, an object.
JAbsent == [t |-> "absent", v |-> "", items |-> <<>>]
JString(str) == [t |-> "string", v |-> str, items |-> <<>>]
JNumber == [t |-> "number", v |-> "7", items |-> <<>>]
JArray(q) == [t |-> "array", v |-> "", items |-> q]

\* The entries a todos array may hold: objects with content and status
\* present as strings, missing or of another type, and an entry that is no
\* object.
TodoEntries ==
    [t : {"object"}, id : {JAbsent}, content : {JString("Write tests"), JNumber, JAbsent},
     status : {JString("pending"), JAbsent}, activeForm : {JAbsent}, priority : {JAbsent}]
    \cup {[t |-> "string", id |-> JAbsent, content |-> JAbsent, status |-> JAbsent,
           activeForm |-> JAbsent, priority |-> JAbsent]}

\* c.Input of a tool_use block: nil, or a map whose "todos" is absent, not an
\* array, or an array of at most n entries.
ToolInputs(n) ==
    {[isNil |-> TRUE, todos |-> JAbsent]}
    \cup [isNil : {FALSE},
          todos : {JAbsent, JString("none")}
                  \cup {JArray(q) : q \in UNION {[1..k -> TodoEntries] : k \in 0..n}}]

\* A ContentBlock.
Block(type, text, name, input) ==
    [Type |-> type, Text |-> text, Name |-> name, Input |-> input]

NilInput == [isNil |-> TRUE, todos |-> JAbsent]

\* Blocks of every type, among them a text block without text and a tool_use
\* block without a name.
BlockSamples ==
    {Block("text", "from content", "", NilInput), Block("text", "", "", NilInput),
     Block("thinking", "", "", NilInput), Block("tool_result", "", "", NilInput),
     Block("tool_use", "", "Bash", NilInput), Block("tool_use", "", "Read", NilInput),
     Block("tool_use", "", "", NilInput)}

\* A StreamMessage with the given tag, texts and content; `extra` fills the
\* fields of the result and init variants.
Message(type, subtype, text, result, content, extra) ==
    [idx |-> 1, Type |-> type, Subtype |-> subtype, SessionID |-> "", Model |-> "",
     Text |-> text, Content |-> content, Result |-> result, NumTurns |-> 0,
     StructuredOutput |-> IF extra THEN "output" ELSE "nil",
     Usage            |-> IF extra THEN "usage" ELSE "nil",
     Tools            |-> IF extra THEN <<"Bash", "Read">> ELSE <<>>,
     PermissionMode   |-> IF extra THEN "plan" ELSE ""]

MessageTypes == {"system", "assistant", "user", "result", "error", ""}

\* The messages handed to the extraction functions: nil, every tag with
\* every combination of texts over at most n blocks, and assistant messages
\* whose blocks are TodoWrite calls with at most m todos.
ExtractInputs(n, m) ==
    {NilMessage}
    \cup {Message(ty, st, tx, rs, c, ex) :
            ty \in MessageTypes, st \in {"", "init"}, tx \in {"", "direct"},
            rs \in {"", "final"}, ex \in BOOLEAN,
            c \in UNION {[1..k -> BlockSamples] : k \in 0..n}}
    \cup {Message("assistant", "", "", "", c, FALSE) :
            c \in {<<Block("tool_use", "", "TodoWrite", in)>> : in \in ToolInputs(m)}
                  \cup {<<Block("tool_use", "", "TodoWrite", skip),
                          Block("tool_use", "", "Bash", NilInput),
                          Block("tool_use", "", "TodoWrite", in)>> :
                           skip \in ToolInputs(0), in \in ToolInputs(1)}}

\* GetAllToolCalls returning every tool_use block, named or not.
GetAllToolCallsUnnamed(msg) ==
    IF msg = NilMessage THEN <<>>
    ELSE SelectSeq(msg.Content, LAMBDA c : c.Type = "tool_use")

\* GetAllToolCalls(msg): a nil slice is the empty sequence.
GetAllToolCalls(msg) ==
    IF msg = NilMessage THEN <<>>
    ELSE SelectSeq(msg.Content, LAMBDA c : c.Type = "tool_use" /\ c.Name # "")

\* getString(m, key): the value when it is a string, else "".
getString(m, key) == IF m[key].t = "string" THEN m[key].v ELSE ""

\* The TodoItem built from one object of the todos array.
TodoItemOf(tm) ==
    [ID |-> getString(tm, "id"), Content |-> getString(tm, "content"),
     Status |-> getString(tm, "status"), ActiveForm |-> getString(tm, "activeForm"),
     Priority |-> getString(tm, "priority")]

\* The loop over todosRaw stopping at the first entry that is no object.
TodosUntilMalformed(todosRaw) ==
    LET bad == {k \in 1..Len(todosRaw) : todosRaw[k].t # "object"}
        n   == IF bad = {} THEN Len(todosRaw)
               ELSE (CHOOSE k \in bad : \A j \in bad : k <= j) - 1
    IN  [k \in 1..n |-> TodoItemOf(todosRaw[k])]

\* The loop over todosRaw: entries that are no object are skipped.
TodosOf(todosRaw) ==
    LET objects == SelectSeq(todosRaw, LAMBDA e : e.t = "object")
    IN  [k \in 1..Len(objects) |-> TodoItemOf(objects[k])]

\* Whether a block is a TodoWrite call whose input holds a todos array.
HasTodos(c) ==
    c.Type = "tool_use" /\ c.Name = "TodoWrite" /\ ~c.Input.isNil /\ c.Input.todos.t = "array"

\* ExtractTodos(msg): the todos of the first such block, nil (empty) when
\* there is none.
ExtractTodos(msg) ==
    IF msg = NilMessage THEN <<>>
    ELSE LET calls == SelectSeq(msg.Content, HasTodos)
         IN  IF calls = <<>> THEN <<>> ELSE TodosOf(calls[1].Input.todos.items)

\* ExtractStructuredOutput, ExtractUsage, ExtractInitTools and
\* ExtractInitPermissionMode.
TypedExtractors ==
    {"ExtractStructuredOutput", "ExtractUsage", "ExtractInitTools", "ExtractInitPermissionMode"}

TypedExtract(fn, msg) ==
    CASE fn = "ExtractStructuredOutput" ->
            IF msg = NilMessage \/ msg.Type # "result" THEN "nil" ELSE msg.StructuredOutput
      [] fn = "ExtractUsage" ->
            IF msg = NilMessage \/ msg.Type # "result" THEN "nil" ELSE msg.Usage
      [] fn = "ExtractInitTools" ->
            IF msg = NilMessage \/ msg.Type # "system" \/ msg.Subtype # "init"
            THEN <<>> ELSE msg.Tools
      [] fn = "ExtractInitPermissionMode" ->
            IF msg = NilMessage \/ msg.Type # "system" \/ msg.Subtype # "init"
            THEN "" ELSE msg.PermissionMode

\* IsResult, IsError, IsAssistant, IsSystem, IsInit and IsUser.
TypePredicates == {"IsResult", "IsError", "IsAssistant", "IsSystem", "IsInit", "IsUser"}

\* IsInit looking at the type tag alone.
TypePredicateNoSubtype(fn, msg) ==
    /\ msg # NilMessage
    /\ msg.Type = CASE fn = "IsResult" -> "result" [] fn = "IsError" -> "error"
                    [] fn = "IsAssistant" -> "assistant" [] fn = "IsUser" -> "user"
                    [] OTHER -> "system"

TypePredicate(fn, msg) ==
    /\ msg # NilMessage
    /\ CASE fn = "IsResult"    -> msg.Type = "result"
         [] fn = "IsError"     -> msg.Type = "error"
         [] fn = "IsAssistant" -> msg.Type = "assistant"
         [] fn = "IsSystem"    -> msg.Type = "system"
         [] fn = "IsInit"      -> msg.Type = "system" /\ msg.Subtype = "init"
         [] fn = "IsUser"      -> msg.Type = "user"

\* The application calls one of the functions on a message.
ExtractCall ==
    /\ caller.kind = "Extract"
    /\ caller.pc = "idle"
    /\ \E fn \in {"ExtractText", "GetAllToolCalls", "ExtractTodos"}
                 \cup TypedExtractors \cup TypePredicates :
          caller' = [caller EXCEPT !.pc = "returned", !.op = fn,
                         !.ret = CASE fn = "ExtractText"     -> ExtractText(caller.arg)
                                   [] fn = "GetAllToolCalls" -> GetAllToolCalls(caller.arg)
                                   [] fn = "ExtractTodos"    -> ExtractTodos(caller.arg)
                                   [] fn \in TypedExtractors -> TypedExtract(fn, caller.arg)
                                   [] OTHER                  -> TypePredicate(fn, caller.arg)]
    /\ UNCHANGED <<L, P, s, Messages, Text, Errors, reader, waiter, ctx, crashed, h>>

\* The extraction functions and predicates on every message tried.
SpecExtract ==
    /\ InitPure("Extract", ExtractInputs(MaxBlocks, MaxTodos))
    /\ [][ExtractCall]_vars

\* ------------------------------------------------- the mutexes, step by step
\* The tasks of a Session: the goroutine that calls Run, readLoop, waitLoop
\* and the first launcher's collectStderr.
Tasks == {"run", "reader", "waiter", "stderr"}

\* One step of a task, as far as the mutexes are concerned: lock / unlock of
\* a mutex, write of a field, "return if" s.closed (the function returns,
\* running its unlock, when the flag is set), or go (start a task).  What a
\* task does between two of these (reading a pipe, cmd.Wait, a channel
\* send) touches neither a mutex nor a guarded field and is no step here.
Instr(op, arg) == [op |-> op, arg |-> arg]

\* mu.Lock(); body; mu.Unlock()
Critical(mu, body) == <<Instr("lock", mu)>> \o body \o <<Instr("unlock", mu)>>

\* close() writing s.closed without taking s.mu.
CloseProgramUnlocked == <<Instr("write", "s.closed")>>

\* Session.close()
CloseProgram ==
    Critical("s.mu", <<Instr("return if", "s.closed"), Instr("write", "s.closed")>>)

\* Launcher.Start on launcher l ("l1" or "l2") in environment env, the whole
\* call under l.mu: the temp file entry when MCP servers are configured, the
\* start time once the pipes exist, the started flag and the stderr
\* collector when the spawn succeeded.
StartProgram(l, env) ==
    Critical(l \o ".mu",
        (IF env \in {"spawnfailmcp", "okmcp"} THEN <<Instr("write", l \o ".tempFiles")>>
         ELSE <<>>)
        \o (IF env \in {"notfound", "writefail"} THEN <<>>
            ELSE <<Instr("write", l \o ".startTime")>>)
        \o (IF env \in {"ok", "okmcp"}
            THEN <<Instr("write", l \o ".started")>>
                 \o (IF l = "l1" THEN <<Instr("go", "stderr")>> ELSE <<>>)
            ELSE <<>>))

\* Session.Run on a new launcher l: the s.closed check under s.mu, Start,
\* then the two goroutines, or close() when Start failed.
RunProgram(l, env) ==
    Critical("s.mu", <<Instr("return if", "s.closed")>>)
    \o StartProgram(l, env)
    \o (IF env \in {"ok", "okmcp"}
        THEN <<Instr("go", "reader"), Instr("go", "waiter")>>
        ELSE CloseProgram)

RECURSIVE ReaderProgram(_)
\* readLoop over the lines of the script: s.metrics under s.mu for a result
\* message and for an init message, and the deferred close() at the end.
ReaderProgram(script) ==
    IF script = <<>> THEN CloseProgram
    ELSE (IF Head(script) \in {"result", "init"}
          THEN Critical("s.mu", <<Instr("write", "s.metrics")>>)
          ELSE <<>>)
         \o ReaderProgram(Tail(script))

\* waitLoop: Launcher.Wait on launcher l (the l.started check, cmd.Wait, the
\* close of l.done, the read of l.stderrBuf after a failure), then s.err
\* under s.mu.  On the launcher of a failed Start, Wait returns after the
\* check.
WaiterProgram(l, code) ==
    Critical(l \o ".mu", <<>>)
    \o (IF l = "l1"
        THEN Critical(l \o ".mu", <<>>)
             \o (IF code # 0 THEN Critical(l \o ".mu", <<>>) ELSE <<>>)
        ELSE <<>>)
    \o Critical("s.mu", <<Instr("write", "s.err")>>)

\* collectStderr of launcher l.
StderrProgram(l) ==
    Critical(l \o ".mu", <<Instr("write", l \o ".stderrBuf")>>)

\* What a task has still to do.
Rest(t) ==
    CASE t = "run"    -> caller.pc
      [] t = "reader" -> reader[1].pc
      [] t = "waiter" -> waiter[1].pc
      [] OTHER        -> L[1].errTask

\* The task that holds mutex m, "" when it is unlocked.
Holder(m) ==
    CASE m = "s.mu"  -> s.mu
      [] m = "l1.mu" -> L[1].mu
      [] OTHER       -> L[2].mu

\* Task t runs its next step.  Lock blocks while the mutex is held.  The
\* waiter works on the launcher it finds in s.launcher when it starts: the
\* first, or the second once a second Run is under way.
TaskStep(t) ==
    /\ Rest(t) # <<>>
    /\ LET in == Head(Rest(t))
           rest == IF in.op = "return if" /\ s.closed
                   THEN <<Instr("unlock", "s.mu")>>
                   ELSE Tail(Rest(t))
           hold(m, cur) == IF in.arg # m THEN cur
                           ELSE IF in.op = "lock" THEN t
                           ELSE IF in.op = "unlock" THEN ""
                           ELSE cur
           next(u, cur, prog) == IF u = t THEN rest
                                 ELSE IF in = Instr("go", u) THEN prog
                                 ELSE cur
       IN  /\ in.op = "lock" => Holder(in.arg) = ""
           /\ s' = [s EXCEPT !.mu = hold("s.mu", @),
                             !.closed = @ \/ in = Instr("write", "s.closed")]
           /\ L' = [L EXCEPT ![1].mu = hold("l1.mu", @),
                             ![2].mu = hold("l2.mu", @),
                             ![1].errTask = next("stderr", @, StderrProgram("l1"))]
           /\ caller' = [caller EXCEPT !.pc = next("run", @, <<>>)]
           /\ reader' = [reader EXCEPT ![1].pc = next("reader", @, ReaderProgram(P[1].script))]
           /\ \E l \in {"l1"} \cup (IF caller.arg.second = "none" THEN {} ELSE {"l2"}) :
                 waiter' = [waiter EXCEPT ![1].pc =
                                next("waiter", @, WaiterProgram(l, P[1].planCode))]
    /\ UNCHANGED <<P, Messages, Text, Errors, ctx, crashed, h>>

\* One Session: a first Run whose Start succeeds (with or without an MCP
\* config file), over any script of init, assistant and result lines and any
\* exit code, and then no second Run or a second Run whose Start fails.
InitLocks ==
    /\ \E script \in UNION {[1..k -> {"init", "asst", "result"}] : k \in 0..MaxLines},
          code \in ExitCodes :
          P = [i \in Launchers |-> NewProcess(script, code)]
    /\ \E first \in {"ok", "okmcp"},
          second \in {"none", "notfound", "spawnfail", "spawnfailmcp"} :
          caller = [NewCall("Locks", [first |-> first, second |-> second]) EXCEPT
                        !.pc = RunProgram("l1", first)
                               \o (IF second = "none" THEN <<>>
                                   ELSE RunProgram("l2", second))]
    /\ L = [i \in Launchers |-> [NewLauncher EXCEPT !.errTask = <<>>]]
    /\ s = NewSession(0)
    /\ Messages = <<>>
    /\ Text = <<>>
    /\ Errors = <<>>
    /\ reader = [i \in Launchers |-> [IdleTask EXCEPT !.pc = <<>>]]
    /\ waiter = [i \in Launchers |-> [NewWaiter EXCEPT !.pc = <<>>]]
    /\ ctx = [cancelled |-> FALSE, whileWaiting |-> FALSE, timeout |-> FALSE,
              expired |-> FALSE]
    /\ crashed = FALSE
    /\ h = NewHistory

SpecLocks == InitLocks /\ [][\E t \in Tasks : TaskStep(t)]_vars

\* ------------------------------------------------ bench: parseRichMetrics
\* One line of the captured output (an element of strings.Split(output,
\* "\n")), by what parseRichMetrics asks of it: blank is TrimSpace(line) = "",
\* typed is strings.Contains(line, `"type"`), brace is strings.HasPrefix(line,
\* "{"), valid is whether json.Unmarshal succeeds, and msg is the
\* StreamMessage it then yields (Usage is whether msg.Usage is non-nil).
StreamLine(blank, typed, brace, valid, msg) ==
    [blank |-> blank, typed |-> typed, brace |-> brace, valid |-> valid, msg |-> msg]

\* The StreamMessage fields parseRichMetrics reads.
RichMessage(type, subtype, model, sid, turns, cost, usage, tokens) ==
    [Type |-> type, Subtype |-> subtype, Model |-> model, SessionID |-> sid,
     NumTurns |-> turns, TotalCost |-> cost, DurationMS |-> 100 * turns,
     Usage |-> usage, OutputTokens |-> tokens]

ZeroRichMessage == RichMessage("", "", "", "", 0, 0, FALSE, 0)

\* The lines tried: a blank line, log noise that mentions "type", a truncated
\* object, a result line with a wrongly typed field (Unmarshal fails), init
\* lines with and without model and session id, a system line that is not
\* the init line, an assistant line, and result lines with and without
\* session id and usage.
StreamLines ==
    {StreamLine(TRUE, FALSE, FALSE, FALSE, ZeroRichMessage),
     StreamLine(FALSE, TRUE, FALSE, FALSE, ZeroRichMessage),
     StreamLine(FALSE, FALSE, TRUE, FALSE, ZeroRichMessage),
     StreamLine(FALSE, TRUE, TRUE, FALSE, ZeroRichMessage)}
    \cup {StreamLine(FALSE, TRUE, TRUE, TRUE, m) : m \in
            {RichMessage("system", "init", "opus", "s1", 0, 0, FALSE, 0),
             RichMessage("system", "init", "sonnet", "s2", 0, 0, FALSE, 0),
             RichMessage("system", "init", "", "", 0, 0, FALSE, 0),
             RichMessage("system", "status", "haiku", "s3", 0, 0, FALSE, 0),
             RichMessage("assistant", "", "", "s1", 0, 0, TRUE, 9),
             RichMessage("result", "success", "", "s4", 3, 5, TRUE, 50),
             RichMessage("result", "error_max_turns", "", "", 7, 14, FALSE, 0)}}

\* The captured streams of at most n lines.
Streams(n) == UNION {[1..k -> StreamLines] : k \in 0..n}

\* var metrics RichMetrics
ZeroRichMetrics ==
    [TotalCostUSD |-> 0, Turns |-> 0, DurationMS |-> 0, SessionID |-> "",
     ResultSubtype |-> "", OutputTokens |-> 0, Model |-> ""]

\* A scan for the result line that starts at the top of the output.
FirstResultLine(lines, i) ==
    LET hits == {k \in 1..Len(lines) : lines[k].valid /\ lines[k].msg.Type = "result"}
    IN  IF hits = {} THEN 0 ELSE CHOOSE k \in hits : \A j \in hits : k <= j

RECURSIVE ScanBackward(_, _)
\* The backward scan from line i: the line it breaks at, 0 when it runs off
\* the top.  Blank lines, lines without "type" and lines that do not
\* unmarshal are skipped.
ScanBackward(lines, i) ==
    IF i = 0 THEN 0
    ELSE IF lines[i].blank \/ ~lines[i].typed THEN ScanBackward(lines, i - 1)
    ELSE IF ~lines[i].valid THEN ScanBackward(lines, i - 1)
    ELSE IF lines[i].msg.Type = "result" THEN i
    ELSE ScanBackward(lines, i - 1)

\* What the backward scan copies from the result message.
FromResult(metrics, msg) ==
    [metrics EXCEPT !.TotalCostUSD = msg.TotalCost,
                    !.Turns = msg.NumTurns,
                    !.DurationMS = msg.DurationMS,
                    !.SessionID = msg.SessionID,
                    !.ResultSubtype = msg.Subtype,
                    !.OutputTokens = IF msg.Usage THEN msg.OutputTokens ELSE @]

RECURSIVE ScanForward(_, _)
\* The forward scan from line i: the line it breaks at, 0 when it runs off
\* the end.  Blank lines, lines that do not begin with "{" and lines that do
\* not unmarshal are skipped.
ScanForward(lines, i) ==
    IF i > Len(lines) THEN 0
    ELSE IF lines[i].blank \/ ~lines[i].brace THEN ScanForward(lines, i + 1)
    ELSE IF ~lines[i].valid THEN ScanForward(lines, i + 1)
    ELSE IF lines[i].msg.Type = "system" /\ lines[i].msg.Subtype = "init" THEN i
    ELSE ScanForward(lines, i + 1)

\* What the forward scan copies from the init message.
FromInit(metrics, msg) ==
    [metrics EXCEPT !.Model = IF msg.Model # "" THEN msg.Model ELSE @,
                    !.SessionID = IF @ = "" /\ msg.SessionID # ""
                                  THEN msg.SessionID ELSE @]

\* parseRichMetrics(output), on the lines of output.
parseRichMetrics(lines) ==
    LET r  == ScanBackward(lines, Len(lines))
        m1 == IF r = 0 THEN ZeroRichMetrics ELSE FromResult(ZeroRichMetrics, lines[r].msg)
        f  == ScanForward(lines, 1)
    IN  IF f = 0 THEN m1 ELSE FromInit(m1, lines[f].msg)

\* The bench runner parses the output it captured.
ParseRichMetricsCall ==
    /\ caller.kind = "Metrics"
    /\ caller.pc = "idle"
    /\ caller' = [caller EXCEPT !.pc = "returned", !.op = "parseRichMetrics",
                                !.ret = parseRichMetrics(caller.arg)]
    /\ UNCHANGED <<L, P, s, Messages, Text, Errors, reader, waiter, ctx, crashed, h>>

\* parseRichMetrics on every stream tried.
SpecMetrics ==
    /\ InitPure("Metrics", Streams(MaxStream))
    /\ [][ParseRichMetricsCall]_vars

\* ------------------------------------------------------------------ helpers
RECURSIVE IsSubseq(_, _)
\* a is b with some elements left out.
IsSubseq(a, b) ==
    IF a = <<>> THEN TRUE
    ELSE IF b = <<>> THEN FALSE
    ELSE IF Head(a) = Head(b) THEN IsSubseq(Tail(a), Tail(b))
    ELSE IsSubseq(a, Tail(b))

StrictlyIncreasing(q) == \A k \in 1..(Len(q) - 1) : q[k] < q[k + 1]

\* The message a reader holds between ReadMessage and sendMessage.
InFlight == IF reader[1].pc = "sendMessage" THEN <<reader[1].msg.idx>> ELSE <<>>

SessionEnded == s.nDone = 1 /\ s.nMessages = 1 /\ s.nText = 1 /\ s.nErrors = 1

SendPcs == {"sendError", "sendMessage", "sendText"}

ReaderSend(i) == ReaderSendError(i) \/ ReaderSendMessage(i) \/ ReaderSendText(i)

\* ------------------------------------------------------------------- claims
\* C1: the reader task never blocks on a channel send.  Whenever a reader is
\* about to run sendMessage, sendText or sendError, the send can complete at
\* once, whatever Messages, Text and Errors hold and whether or not anyone
\* ever receives.
C1_ReaderNeverBlocksOnSend ==
    \A i \in Launchers :
        (~crashed /\ reader[i].pc \in SendPcs) => ENABLED ReaderSend(i)

\* C1 witness: the reader is about to send a message while Messages is full
\* and the application has received nothing.
C1_Witness ==
    /\ reader[1].pc = "sendMessage"
    /\ Len(Messages) = s.bufSize
    /\ h.recv = <<>>

\* C2: once the subprocess has terminated, the session eventually ends: done,
\* Messages, Text and Errors all get closed.
C2_ExitLeadsToSessionEnd ==
    (P[1].state = "exited") ~> SessionEnded

\* C3: Session.close closes done, Messages, Text and Errors exactly once.
\* However many close attempts there were (readers finishing, failed
\* starts), no channel is ever closed twice, and from the first attempt on
\* all four are closed.
C3_CloseExactlyOnce ==
    /\ s.nDone <= 1 /\ s.nMessages <= 1 /\ s.nText <= 1 /\ s.nErrors <= 1
    /\ h.closeCalls >= 1 => SessionEnded
    /\ h.closeCalls = 0 => (s.nDone = 0 /\ s.nMessages = 0 /\ s.nText = 0 /\ s.nErrors = 0)

\* C3 witness: close was attempted at least twice, by a failed start and by a
\* finishing reader among others.
C3_Witness ==
    /\ h.closeCalls >= 2
    /\ SessionEnded
    /\ \E i \in Launchers : reader[i].pc = "done"

\* C4: what the application receives from Messages is, in order and without
\* repetition, a subsequence of the lines ReadMessage parsed, themselves in
\* the order the subprocess wrote them; with no drop nothing is missing.
C4_MessagesInOrder ==
    /\ StrictlyIncreasing(h.parsed)
    /\ \A k \in 1..Len(h.parsed) : P[1].script[h.parsed[k]] \notin {"bad", "empty"}
    /\ StrictlyIncreasing(h.recv)
    /\ IsSubseq(h.recv, h.parsed)
    /\ IsSubseq(h.recv \o Idx(Messages), h.parsed)
    /\ h.drops = 0 => h.recv \o Idx(Messages) \o InFlight = h.parsed

\* C4 witness: two messages were parsed and the application has received
\* both.
C4_Witness == Len(h.recv) = 2 /\ h.recv = h.parsed

\* C5: once Session.Done() is closed after a started run, Err() is the
\* outcome of the launcher's Wait: nil for exit status 0, an ExitError
\* carrying the status otherwise.
C5_ErrAfterDone ==
    (s.nDone > 0 /\ L[1].started) =>
        s.err = IF P[1].exitCode = 0 THEN NoError ELSE ExitError(P[1].exitCode)

\* C6: when the context is cancelled while CollectAll / CollectMessages is
\* waiting on a running process, the method does not return a nil error.
C6_CancelNeverNil ==
    (caller.pc = "returned" /\ ctx.whileWaiting) => caller.ret # NoError

\* C7: on normal completion (the channel was found closed, or done fired and
\* the rest was drained) CollectMessages returns every message that was
\* buffered on Messages, in order, and CollectAll the concatenation of every
\* text that was buffered on Text.
C7_CollectReturnsAllEnqueued ==
    (caller.pc = "returned" /\ caller.via \in {"closed", "done"}) =>
        caller.acc = IF caller.kind = "CollectMessages" THEN h.enq ELSE Concat(h.textEnq)

\* C7 witness: CollectMessages returned through the done branch, whose drain
\* loop picked up messages that were still buffered.
C7_Witness ==
    /\ caller.pc = "returned"
    /\ caller.kind = "CollectMessages"
    /\ caller.via = "done"
    /\ caller.drained > 0
    /\ Len(caller.acc) = 2

\* A script that is a burst of messages: every line parses.
IsBurst == \A k \in 1..Len(P[1].script) : P[1].script[k] \notin {"bad", "empty"}

\* C8: for a burst of messages against an undersized Messages buffer the
\* session ends with its channels closed, and by then either every parsed
\* message was buffered on Messages or a "buffer full" error was buffered on
\* Errors.
C8_BurstDeliveredOrReported ==
    (IsBurst /\ s.bufSize < Len(P[1].script) /\ P[1].state = "exited")
        ~> (SessionEnded /\ (h.enq = h.parsed \/ h.bufFull > 0))

\* C9: a second Launcher.Wait, called after the first completed, returns
\* what the first returned, leaves done closed once and OnExit fired once.
C9_WaitTwiceSameOutcome ==
    Len(caller.waits) >= 2 =>
        /\ caller.waits[2] = caller.waits[1]
        /\ L[1].done = 1
        /\ L[1].onExit = 1

\* A step that is a call of Start on a launcher already started.
StartOnStarted ==
    /\ caller.kind = "Launcher"
    /\ L[1].started
    /\ caller'.n = caller.n + 1
    /\ caller'.op = "Start"

\* C10: Start on a launcher that was started returns ErrAlreadyStarted,
\* spawns nothing and leaves the launcher and its process as they were, also
\* after the process has exited; no launcher ever spawns a second process.
C10_StartOnlyOnce ==
    /\ [](P[1].spawns <= 1)
    /\ [][StartOnStarted =>
            (caller'.ret = ErrAlreadyStarted /\ L' = L /\ P' = P)]_vars

\* C10 witness: Start was called after the process had exited and answered
\* ErrAlreadyStarted.
C10_Witness ==
    /\ caller.op = "Start"
    /\ caller.ret = ErrAlreadyStarted
    /\ P[1].state = "exited"
    /\ L[1].waited

\* A step that is a call of Wait, Interrupt or Kill on a launcher not started.
ControlOnUnstarted ==
    /\ caller.kind = "Launcher"
    /\ ~L[1].started
    /\ caller'.n = caller.n + 1
    /\ caller'.op \in {"Wait", "Interrupt", "Kill"}

\* C11: on a launcher that has not been started, Wait, Interrupt and Kill
\* return ErrNotStarted at once and change neither the launcher (done stays
\* open, no hook fires) nor any process (no signal), and PID is 0; on a
\* Session before Run, Interrupt and Kill return ErrNotStarted and no process
\* is touched.
C11_NotStartedControls ==
    /\ []((caller.kind = "Launcher" /\ ~L[1].started) =>
            (PID(L[1]) = 0 /\ ~Running(L[1]) /\ L[1].done = 0 /\ L[1].onExit = 0
             /\ ~P[1].killed /\ ~P[1].interrupted))
    /\ [][ControlOnUnstarted =>
            (caller'.ret = ErrNotStarted /\ caller'.pc = "idle" /\ L' = L /\ P' = P)]_vars
    /\ [][(caller.kind = "Run" /\ s.launcher = 0) =>
            (/\ P' = P
             /\ L' = L
             /\ caller'.op \in {"Kill", "Interrupt"} => caller'.ret = ErrNotStarted)]_vars

\* C11 witness: Interrupt answered ErrNotStarted on a launcher whose Start
\* had failed at the spawn, so that l.cmd exists without a process.
C11_Witness ==
    /\ caller.kind = "Launcher"
    /\ caller.op = "Interrupt"
    /\ caller.ret = ErrNotStarted
    /\ L[1].cmdSet
    /\ ~L[1].started

\* C12: Launcher.Done() is closed at most once, and it is closed exactly when
\* a Wait call has completed, which is never before the process has exited;
\* Running() is true exactly from a successful Start until Done is closed.
C12_DoneOnceAfterWait ==
    caller.kind = "Launcher" =>
        /\ L[1].done <= 1
        /\ (L[1].done = 1) <=> (Len(caller.waits) >= 1)
        /\ L[1].done = 1 => P[1].state = "exited"
        /\ Running(L[1]) <=> (L[1].onStart >= 1 /\ L[1].done = 0)
        /\ L[1].onStart <= 1

\* C12 witness: Wait has completed twice on an exited process.
C12_Witness ==
    /\ caller.kind = "Launcher"
    /\ Len(caller.waits) >= 2
    /\ L[1].done = 1
    /\ ~Running(L[1])

\* C13: a Start call creates at most one temporary file, and once Wait has
\* completed no temporary file that Start created exists any more, whatever
\* the exit status.
C13_TempFilesRemoved ==
    /\ [](\A i \in Launchers : L[i].waited => L[i].tempOnDisk = 0)
    /\ [][\A i \in Launchers : L'[i].tempFiles <= L[i].tempFiles + 1]_vars

\* C13 witness: Wait has completed for a process that was started with a
\* temporary config file and exited with a failure status.
C13_Witness ==
    /\ L[1].waited
    /\ L[1].tempFiles >= 1
    /\ L[1].tempOnDisk = 0
    /\ P[1].exitCode = 1

\* C14: the first Wait on a process that exited with a non-zero code returns
\* an ExitError with that code and with the text the process wrote to
\* stderr; on exit code 0 it returns nil.
C14_ExitErrorCarriesStderr ==
    (caller.kind = "Launcher" /\ Len(caller.waits) = 1) =>
        IF P[1].exitCode = 0
        THEN caller.waits[1] = NoError
        ELSE /\ caller.waits[1] = ExitError(P[1].exitCode)
             /\ L[1].waitStderr = P[1].stderr

\* A step that is a call of Run on a session whose done signal is closed.
RunOnEnded ==
    /\ caller.kind = "Run"
    /\ s.nDone >= 1
    /\ caller'.n = caller.n + 1
    /\ caller'.op = "Run"

\* C15: Run on a session that has ended (done closed by a finished reader or
\* by a failed start) returns ErrSessionClosed and starts nothing: no
\* launcher, no process, no reader, no waiter, and the session is as it was.
C15_RunOnEndedSession ==
    [][RunOnEnded =>
        (/\ caller'.ret = ErrSessionClosed
         /\ caller'.pc = "idle"
         /\ <<L, P, s, reader, waiter>>' = <<L, P, s, reader, waiter>>)]_vars

\* C15 witness: a second Run was refused after the first run's reader had
\* finished and closed the session.
C15_Witness ==
    /\ caller.n = 2
    /\ caller.op = "Run"
    /\ caller.ret = ErrSessionClosed
    /\ reader[1].pc = "done"
    /\ P[2].spawns = 0

\* The errors with which Launcher.Start fails.
StartErrors == {ErrCLINotFound, StartError}

RECURSIVE LinesWhere(_, _, _)
\* The positions 1..n of script whose line kind is in kinds, ascending.
LinesWhere(script, n, kinds) ==
    IF n = 0 THEN <<>>
    ELSE LinesWhere(script, n - 1, kinds)
         \o (IF script[n] \in kinds THEN <<n>> ELSE <<>>)

\* The line kinds that parse to a message.
MessageKinds == (LineKinds \cup ToolLineKinds) \ {"bad", "empty"}

\* The events of hook sequence q fired by the hooks in names.
HooksNamed(q, names) == SelectSeq(q, LAMBDA e : e.hook \in names)

\* C17: each line that is not valid JSON makes ReadMessage fire OnError with a
\* ParseError for that line, the session buffers that error on Errors, and
\* reading goes on: every valid line read so far, before or after it, was
\* returned as a message, and the reader only stops at end of stream.
C17_ParseErrorSkipsLine ==
    LET script == P[1].script
        rp     == L[1].readPos
        bad    == LinesWhere(script, rp, {"bad"})
        held   == IF reader[1].pc = "sendError" /\ reader[1].err # ErrRead
                  THEN <<reader[1].err>> ELSE <<>>
    IN  /\ h.parsed = LinesWhere(script, rp, MessageKinds)
        /\ h.parseErrs = Len(bad)
        /\ HooksNamed(L[1].hooks, {"OnError"})
             = [k \in 1..Len(bad) |-> [hook |-> "OnError", idx |-> bad[k],
                                       arg |-> ParseError(bad[k])]]
        /\ SelectSeq(h.errEnq, LAMBDA e : e # ErrBufferFull) \o held
             = [k \in 1..Len(bad) |-> ParseError(bad[k])]
        /\ reader[1].pc \in {"close", "done"} => L[1].scan = "eof"

\* C17 witness: after a line that did not parse, the next line was returned
\* and buffered on Messages, and the parse error on Errors.
C17_Witness ==
    /\ P[1].script = <<"bad", "asst">>
    /\ h.enq = <<2>>
    /\ h.errEnq = <<ParseError(1)>>
    /\ reader[1].pc = "done"

\* C18: ReadMessage returns a message or a ParseError for every non-empty
\* line it consumed and for no empty line, so that a call that met empty
\* lines answers with the next non-empty line; it returns (nil, nil) exactly
\* when the scanner stopped at the end of stdout without a read error.
C18_EmptyLinesSkipped ==
    LET script == P[1].script
        rp     == L[1].readPos
        fired  == HooksNamed(L[1].hooks, {"OnMessage", "OnError"})
        ret    == caller.op = "ReadMessage" /\ caller.pc = "idle"
    IN  /\ [k \in 1..Len(fired) |-> fired[k].idx]
             = LinesWhere(script, rp, (LineKinds \cup ToolLineKinds) \ {"empty"})
        /\ (ret /\ caller.ret \in {"msg", "parse"}) =>
              (script[rp] # "empty" /\ (caller.ret = "parse" <=> script[rp] = "bad"))
        /\ caller.pc = "inRead" => script[rp] = "empty"
        /\ ret => (caller.ret = "eof" <=> L[1].scan = "eof")
        /\ L[1].scan = "eof" =>
              (P[1].state = "exited" /\ rp = P[1].written)
        /\ ret => (caller.ret = "err" <=> L[1].scan = "err")

\* C18 witness: a call consumed an empty line and returned the message of
\* the line after it.
C18_Witness ==
    /\ P[1].script = <<"empty", "asst">>
    /\ caller.op = "ReadMessage"
    /\ caller.pc = "idle"
    /\ caller.ret = "msg"
    /\ L[1].readPos = 2
    /\ caller.n = 2

\* The hooks ReadMessage is to fire for line k of the given kind, by name and
\* in order.
ExpectedHooks(kind, k) ==
    CASE kind = "bad"      -> <<"OnError">>
      [] kind = "init"     -> <<"OnMessage">>
      [] kind = "asst"     -> <<"OnMessage", "OnText">>
      [] kind = "tool"     -> <<"OnMessage", "OnToolCall">>
      [] kind = "textTool" -> <<"OnMessage", "OnText", "OnToolCall">>
      [] kind = "result"   -> <<"OnMessage", "OnText", "OnMetrics">>
      [] OTHER             -> <<>>

RECURSIVE ExpectedHookTrace(_, _)
\* [hook, idx] of every hook due for lines 1..n of script, line after line.
ExpectedHookTrace(script, n) ==
    IF n = 0 THEN <<>>
    ELSE ExpectedHookTrace(script, n - 1)
         \o [j \in 1..Len(ExpectedHooks(script[n], n)) |->
                [hook |-> ExpectedHooks(script[n], n)[j], idx |-> n]]

C20_TextOnlyFromAssistant ==
    LET script == P[1].script
        asst   == LinesWhere(script, L[1].readPos, {"asst", "textTool"})
        texts  == [k \in 1..Len(asst) |-> "hello" \o ToString(asst[k])]
        held   == IF reader[1].pc \in {"sendMessage", "sendText"}
                     /\ reader[1].msg.Type = "assistant"
                  THEN <<ExtractText(reader[1].msg)>> ELSE <<>>
    IN  /\ IsSubseq(h.textEnq, texts)
        /\ h.textDrops = 0 => h.textEnq \o held = texts
        /\ h.textRecv \o Text = h.textEnq
        /\ \A k \in 1..Len(script) : \A j \in 1..Len(h.textEnq) :
              h.textEnq[j] # "result" \o ToString(k)

\* C20 witness: an assistant line and a result line were both delivered on
\* Messages, and Text got the assistant's text alone.
C20_Witness ==
    /\ P[1].script = <<"asst", "result">>
    /\ h.enq = <<1, 2>>
    /\ h.textEnq = <<"hello1">>
    /\ reader[1].pc = "done"

\* The elements of a sequence.
Range(q) == {q[k] : k \in 1..Len(q)}

ResultsProcessed ==
    LET res  == LinesWhere(P[1].script, L[1].readPos, {"result"})
        held == reader[1].pc \in {"sendMessage", "metrics"} /\ reader[1].msg.Type = "result"
    IN  IF held THEN SubSeq(res, 1, Len(res) - 1) ELSE res

\* C22: CurrentMetrics() is the zero SessionMetrics until a result message
\* has been processed, and from then on the metrics of the most recent result
\* message.
C22_MetricsFromResultOnly ==
    s.metrics = IF ResultsProcessed = <<>> THEN ZeroMetrics
                ELSE metricsFromMessage(
                         ParseLine("result", ResultsProcessed[Len(ResultsProcessed)]))

\* C23: when opts.Timeout elapsed while the process was running and the
\* process was terminated for it, the error of the session is
\* ErrSessionTimeout: s.err once waitLoop has stored it, what Session.Wait
\* returns after that, and what CollectAll / CollectMessages return.
C23_TimeoutReported ==
    (ctx.expired /\ P[1].state = "exited" /\ P[1].exitCode = KilledCode) =>
        /\ waiter[1].pc = "done" => s.err = ErrSessionTimeout
        /\ (waiter[1].pc = "done" /\ caller.op = "Wait") => caller.ret = ErrSessionTimeout
        /\ (waiter[1].pc = "done" /\ caller.pc = "returned") => caller.ret = ErrSessionTimeout

\* C24: PID() is 0 on a launcher that has not been started and again once
\* the process has exited and Wait has reaped it, and it is the process
\* identifier while the process is running.
C24_PIDOnlyWhileRunning ==
    caller.kind = "Launcher" =>
        /\ (~L[1].started \/ L[1].waited) => PID(L[1]) = 0
        /\ (L[1].started /\ P[1].state = "running") => PID(L[1]) = ProcessPid

\* The value the child process sees for key: exec.Cmd uses the last element
\* of Env for a key; "<unset>" when there is none.
EnvValue(env, key) ==
    IF \E i \in 1..Len(env) : env[i].key = key
    THEN env[CHOOSE i \in 1..Len(env) :
                env[i].key = key /\ \A j \in (i + 1)..Len(env) : env[j].key # key].value
    ELSE "<unset>"

\* The value the last assignment gives key, in the order APIKey,
\* MaxThinkingTokens, opts.Env; "<none>" when nothing assigns it.
LastAssigned(opts, key) ==
    IF key \in DOMAIN opts.Env THEN opts.Env[key]
    ELSE IF key = "MAX_THINKING_TOKENS" /\ opts.MaxThinkingTokens > 0
         THEN ToString(opts.MaxThinkingTokens)
    ELSE IF key = "ANTHROPIC_API_KEY" /\ opts.APIKey # "" THEN opts.APIKey
    ELSE "<none>"

\* C25: in the environment Start builds, every variable that APIKey,
\* MaxThinkingTokens or the Env map assigns has the value of the last of these
\* assignments, and every other variable has its inherited value (or stays
\* unset), in whatever order the Env map is ranged over.
C25_EnvMergedOverInherited ==
    (caller.kind = "Env" /\ caller.pc = "returned") =>
        \A k \in EnvKeys :
            EnvValue(caller.ret, k) =
                IF LastAssigned(caller.arg.opts, k) # "<none>"
                THEN LastAssigned(caller.arg.opts, k)
                ELSE EnvValue(caller.arg.inherited, k)

\* C25 witness: the inherited API key was replaced by APIKey and then by the
\* Env map's value, the thinking budget was added, and HOME is as inherited.
C25_Witness ==
    /\ caller.kind = "Env"
    /\ caller.pc = "returned"
    /\ caller.arg.inherited = <<EnvEntry("HOME", "old"), EnvEntry("ANTHROPIC_API_KEY", "old")>>
    /\ caller.arg.opts.APIKey = "key"
    /\ caller.arg.opts.MaxThinkingTokens = 8
    /\ DOMAIN caller.arg.opts.Env = {"ANTHROPIC_API_KEY"}
    /\ caller.ret = <<EnvEntry("HOME", "old"), EnvEntry("ANTHROPIC_API_KEY", "new"),
                      EnvEntry("MAX_THINKING_TOKENS", "8")>>

\* C26: every argument vector buildArgs builds begins with --print,
\* --output-format stream-json and --verbose, whether or not the caller set
\* Verbose, and has the prompt as its last element, after any
\* AdditionalArgs and the MCP config flag.
C26_ArgsPromptLast ==
    (caller.kind = "Args" /\ caller.pc = "returned" /\ caller.ret.err = NoError) =>
        LET args == caller.ret.args
        IN  /\ Len(args) >= 5
            /\ args[Len(args)] = caller.arg.prompt
            /\ SubSeq(args, 1, 4) = <<"--print", "--output-format", "stream-json", "--verbose">>
            /\ \A i \in 1..Len(caller.arg.opts.AdditionalArgs) :
                  \E j \in 5..(Len(args) - 1) : args[j] = caller.arg.opts.AdditionalArgs[i]

\* C26 witness: a vector built with AdditionalArgs that name another output
\* format, an MCP config file, and Verbose unset.
C26_Witness ==
    /\ caller.kind = "Args"
    /\ caller.pc = "returned"
    /\ caller.ret.err = NoError
    /\ ~caller.arg.opts.Verbose
    /\ caller.arg.opts.AdditionalArgs = <<"--output-format", "json">>
    /\ caller.arg.mcpConfigFile # ""
    /\ caller.arg.opts.Model = "opus"
    /\ caller.ret.args = <<"--print", "--output-format", "stream-json", "--verbose",
                           "--model", "opus", "--mcp-config", "/tmp/claude-mcp-1.json",
                           "--output-format", "json", "hello world">>

\* A call of fn on a message that is not nil has returned.
Returned(fn) ==
    caller.kind = "Extract" /\ caller.pc = "returned" /\ caller.op = fn
        /\ caller.arg # NilMessage

\* The number of positions of q that satisfy Test.
CountWhere(q, Test(_)) == Cardinality({k \in 1..Len(q) : Test(q[k])})

IsToolUse(c) == c.Type = "tool_use"
IsNamedToolUse(c) == c.Type = "tool_use" /\ c.Name # ""

C28_ExtractTextPriority ==
    Returned("ExtractText") =>
        LET msg   == caller.arg
            texts == SelectSeq(msg.Content, LAMBDA c : c.Type = "text" /\ c.Text # "")
        IN  caller.ret =
                IF msg.Text # "" THEN msg.Text
                ELSE IF texts # <<>> THEN texts[1].Text
                ELSE IF msg.Type = "result" THEN msg.Result
                ELSE ""

\* C28 witness: a result message with a direct text, a text block and a
\* Result gave the direct text.
C28_Witness ==
    /\ Returned("ExtractText")
    /\ caller.arg.Type = "result"
    /\ caller.arg.Text = "direct"
    /\ caller.arg.Result = "final"
    /\ Len(caller.arg.Content) = 2
    /\ caller.arg.Content[2].Text = "from content"
    /\ caller.ret = "direct"

\* The todos array ExtractTodos reads: that of the first TodoWrite call that
\* has one.
TodosRaw(msg) == SelectSeq(msg.Content, HasTodos)[1].Input.todos.items

IsString(v) == v.t = "string"

\* C29 as stated: ExtractTodos returns, in order, an item for exactly those
\* entries of the todos list whose content and status are both present as
\* strings.
C29_OnlyWellFormedTodos ==
    (Returned("ExtractTodos") /\ SelectSeq(caller.arg.Content, HasTodos) # <<>>) =>
        LET good == SelectSeq(TodosRaw(caller.arg),
                              LAMBDA e : e.t = "object" /\ IsString(e.content)
                                                       /\ IsString(e.status))
        IN  /\ Len(caller.ret) = Len(good)
            /\ \A k \in 1..Len(good) :
                  /\ caller.ret[k].Content = good[k].content.v
                  /\ caller.ret[k].Status = good[k].status.v

\* C29 amended: ExtractTodos returns, in order, an item for every entry of
\* the todos list that is a JSON object, with the empty string for a content
\* or status that is missing or not a string; only entries that are no
\* object are skipped.
C29_ObjectTodosKept ==
    (Returned("ExtractTodos") /\ SelectSeq(caller.arg.Content, HasTodos) # <<>>) =>
        LET objects == SelectSeq(TodosRaw(caller.arg), LAMBDA e : e.t = "object")
        IN  /\ Len(caller.ret) = Len(objects)
            /\ \A k \in 1..Len(objects) :
                  /\ caller.ret[k].Content =
                        (IF IsString(objects[k].content) THEN objects[k].content.v ELSE "")
                  /\ caller.ret[k].Status =
                        (IF IsString(objects[k].status) THEN objects[k].status.v ELSE "")

\* C29 witness: of an entry that is no object and an object without a status,
\* the second was returned with an empty Status.
C29_Witness ==
    /\ Returned("ExtractTodos")
    /\ Len(caller.arg.Content) = 1
    /\ HasTodos(caller.arg.Content[1])
    /\ Len(TodosRaw(caller.arg)) = 2
    /\ TodosRaw(caller.arg)[1].t = "string"
    /\ TodosRaw(caller.arg)[2].content = JString("Write tests")
    /\ TodosRaw(caller.arg)[2].status = JAbsent
    /\ caller.ret = <<[ID |-> "", Content |-> "Write tests", Status |-> "",
                       ActiveForm |-> "", Priority |-> ""]>>

\* The type tag each predicate asks for.
TagOf(fn) ==
    CASE fn = "IsResult" -> "result" [] fn = "IsError" -> "error"
      [] fn = "IsAssistant" -> "assistant" [] fn = "IsUser" -> "user"
      [] OTHER -> "system"

\* C30: on a nil message every function returns its zero result; the
\* extractors of result and init fields return their zero result on a message
\* of another type and the field otherwise; each predicate is true exactly
\* when the message is not nil and its type tag, and for IsInit its subtype,
\* match.
C30_ExtractorsTotal ==
    (caller.kind = "Extract" /\ caller.pc = "returned") =>
        LET msg == caller.arg
            fn  == caller.op
            isResult == msg # NilMessage /\ msg.Type = "result"
            isInit   == msg # NilMessage /\ msg.Type = "system" /\ msg.Subtype = "init"
        IN  /\ fn = "ExtractText" /\ msg = NilMessage => caller.ret = ""
            /\ fn \in {"GetAllToolCalls", "ExtractTodos"} /\ msg = NilMessage =>
                  caller.ret = <<>>
            /\ fn = "ExtractStructuredOutput" =>
                  caller.ret = (IF isResult THEN msg.StructuredOutput ELSE "nil")
            /\ fn = "ExtractUsage" =>
                  caller.ret = (IF isResult THEN msg.Usage ELSE "nil")
            /\ fn = "ExtractInitTools" =>
                  caller.ret = (IF isInit THEN msg.Tools ELSE <<>>)
            /\ fn = "ExtractInitPermissionMode" =>
                  caller.ret = (IF isInit THEN msg.PermissionMode ELSE "")
            /\ fn \in TypePredicates =>
                  (caller.ret <=> /\ msg # NilMessage
                                  /\ msg.Type = TagOf(fn)
                                  /\ fn = "IsInit" => msg.Subtype = "init")

\* C30 witness: IsInit answered false for a system message that is not the
\* init message.
C30_Witness ==
    /\ Returned("IsInit")
    /\ caller.arg.Type = "system"
    /\ caller.arg.Subtype = ""
    /\ caller.ret = FALSE

\* The reader tasks that have been started and have not returned.
LiveReaders == {i \in Launchers : reader[i].pc \notin {"none", "done"}}

\* C33: nothing is ever sent on Messages, Text or Errors after Session.close
\* closed them, over every sequence of Run calls (a second Run issued before
\* the first run has ended included), and a session never has more than one
\* reader task writing to its channels.
C33_NoSendAfterClose ==
    /\ ~h.sendOnClosed
    /\ Cardinality(LiveReaders) <= 1

\* C34: no stdout line is lost to the race of the reader with the waiter.
\* Once the scanner of a started launcher has stopped (ReadMessage reports
\* end of stream or a read error) after the process exited, it has returned
\* every line the process wrote, also when Wait released the pipes first.
C34_NoLineLost ==
    \A i \in Launchers :
        (L[i].started /\ P[i].state = "exited" /\ L[i].scan # "ok") =>
            L[i].readPos = P[i].written

\* C36: once the init message has set SessionID and Model in the metrics
\* snapshot, CurrentMetrics() keeps reporting that session identifier and
\* that model for the rest of the session, also after a result message
\* without a model field has replaced the other metrics.
C36_InitFieldsKept ==
    [][(s.metrics.SessionID # "" /\ s.metrics.Model # "") =>
           /\ s'.metrics.SessionID = s.metrics.SessionID
           /\ s'.metrics.Model = s.metrics.Model]_vars

\* C37: in a Session run the hooks follow the life of the process.  OnStart
\* fires exactly once and before any hook of ReadMessage (OnMessage, OnText,
\* OnToolCall, OnMetrics, OnError); OnExit fires at most once and only after
\* the process has exited, after the channels were closed and after the last
\* hook of ReadMessage.
C37_HooksFollowLifecycle ==
    /\ [](\A i \in Launchers :
             /\ L[i].onStart <= 1
             /\ L[i].onExit <= 1
             /\ L[i].hooks # <<>> => L[i].onStart = 1
             /\ L[i].onExit = 1 => (P[i].state = "exited" /\ SessionEnded))
    /\ [][\A i \in Launchers : L[i].onExit = 1 => L'[i].hooks = L[i].hooks]_vars

\* C39: no temporary file survives a failed Start.  A launcher that is not
\* started (its Start returned an error, so its Wait only answers
\* ErrNotStarted) has no temporary config file left on disk.
C39_NoTempFileAfterFailedStart ==
    ~L[1].started => L[1].tempOnDisk = 0

\* C40: ReadMessage on a Launcher that was never started, or whose Start
\* failed, returns an error value instead of crashing.
C40_ReadMessageOnUnstarted ==
    /\ ~crashed
    /\ (caller.kind = "Launcher" /\ caller.op = "ReadMessage" /\ caller.pc = "idle"
            /\ ~L[1].started) => caller.ret \in {"err", "parse"}

\* The launcher fields an operation leaves behind, the record of the
\* callbacks called and the Hooks value itself set aside.
WithoutHooks(l) ==
    [l EXCEPT !.hooks = <<>>, !.onStart = 0, !.onExit = 0, !.hookCfg = NilHooks]

\* C31: every hook invocation is nil-safe at two levels.  With a nil Hooks
\* bundle, or a bundle whose callback is nil, nothing is called, and Start,
\* ReadMessage and Wait return the same value and leave the same launcher
\* fields as they do on a launcher without hooks.
C31_HooksNilSafe ==
    LET l    == L[1]
        bare == WithoutHooks(l)
        read == ReadMessage(l, P[1])
    IN  /\ \A k \in 1..Len(l.hooks) :
              l.hookCfg.bundle /\ l.hooks[k].hook \in l.hookCfg.set
        /\ l.onStart > 0 => (l.hookCfg.bundle /\ "OnStart" \in l.hookCfg.set)
        /\ l.onExit > 0 => (l.hookCfg.bundle /\ "OnExit" \in l.hookCfg.set)
        /\ \A env \in StartEnvs :
              /\ StartCall(l, env).ret = StartCall(bare, env).ret
              /\ WithoutHooks(StartCall(l, env).l) = StartCall(bare, env).l
        /\ read.kind = ReadMessage(bare, P[1]).kind
        /\ read.msg = ReadMessage(bare, P[1]).msg
        /\ WithoutHooks(read.l) = ReadMessage(bare, P[1]).l
        /\ WaitOutcome(l, P[1]) = WaitOutcome(bare, P[1])
        /\ WithoutHooks(WaitFields(l)) = WaitFields(bare)

\* C31 witness: with a bundle that has only OnText, ReadMessage has returned
\* both lines of a script, calling OnText and nothing else, and Wait has
\* returned without calling OnExit.
C31_Witness ==
    /\ L[1].hookCfg = [bundle |-> TRUE, set |-> {"OnText"}]
    /\ L[1].readPos = 2
    /\ Len(L[1].hooks) = 2
    /\ L[1].waited
    /\ L[1].onExit = 0

\* The result lines and the init lines of a captured stream, by position.
ResultLines(lines) ==
    {k \in 1..Len(lines) : lines[k].valid /\ lines[k].msg.Type = "result"}
InitLines(lines) ==
    {k \in 1..Len(lines) : /\ lines[k].valid
                           /\ lines[k].msg.Type = "system"
                           /\ lines[k].msg.Subtype = "init"}

\* C32: parseRichMetrics takes cost, turn count, duration and token fields
\* from the last result line and the model name from the first system/init
\* line; the session identifier comes from the result, and from the init line
\* only when the result has none.  Without a result line or without an init
\* line the corresponding fields stay zero or empty.
C32_RichMetricsFromResultAndInit ==
    (caller.kind = "Metrics" /\ caller.pc = "returned") =>
        LET lines   == caller.arg
            results == ResultLines(lines)
            inits   == InitLines(lines)
            res     == lines[CHOOSE k \in results : \A j \in results : j <= k].msg
            init    == lines[CHOOSE k \in inits : \A j \in inits : k <= j].msg
            sid     == IF results = {} THEN "" ELSE res.SessionID
            m       == caller.ret
        IN  /\ m.TotalCostUSD = (IF results = {} THEN 0 ELSE res.TotalCost)
            /\ m.Turns = (IF results = {} THEN 0 ELSE res.NumTurns)
            /\ m.DurationMS = (IF results = {} THEN 0 ELSE res.DurationMS)
            /\ m.OutputTokens = (IF results = {} \/ ~res.Usage THEN 0 ELSE res.OutputTokens)
            /\ m.ResultSubtype = (IF results = {} THEN "" ELSE res.Subtype)
            /\ m.Model = (IF inits = {} THEN "" ELSE init.Model)
            /\ m.SessionID = (IF sid # "" \/ inits = {} THEN sid ELSE init.SessionID)

\* C32 witness: a stream of three lines, two result lines around an init
\* line; the metrics are those of the second result line, which has no
\* session id, with the model and the session id of the init line.
C32_Witness ==
    /\ caller.kind = "Metrics"
    /\ caller.pc = "returned"
    /\ Len(caller.arg) = 3
    /\ ResultLines(caller.arg) = {1, 3}
    /\ InitLines(caller.arg) = {2}
    /\ caller.ret.Turns = 7
    /\ caller.ret.Model = "opus"
    /\ caller.ret.SessionID = "s1"

RECURSIVE ResultOfMessages(_, _, _)
\* The metadata the Messages case leaves when it handles, one after the
\* other, the messages of the script at the positions in q.
ResultOfMessages(result, script, q) ==
    IF q = <<>> THEN result
    ELSE ResultOfMessages(ResultFromMessage(result, ParseLine(script[Head(q)], Head(q))),
                          script, Tail(q))

\* C35: with no message dropped, RunAndCollect returns the same Result
\* metadata (SessionID and Model from the init and result messages, NumTurns)
\* whichever branch of the select handled each message: what it returns
\* after the drain loop under Done is what the Messages case would have made
\* of the same messages.
C35_SameResultOnEveryBranch ==
    (/\ caller.kind = "RunAndCollect"
     /\ caller.pc = "returned"
     /\ caller.via \in {"closed", "done"}
     /\ h.drops = 0) =>
        caller.result = ResultOfMessages(ZeroResult, P[1].script, caller.acc)

\* The fields the claim names, and the mutex of the object each belongs to.
GuardedFields ==
    {"s.closed", "s.err", "s.metrics"}
        \cup {l \o f : l \in {"l1", "l2"},
                       f \in {".tempFiles", ".stderrBuf", ".startTime", ".started"}}

Owner(field) ==
    CASE field \in {"s.closed", "s.err", "s.metrics"} -> "s.mu"
      [] field \in {"l1.tempFiles", "l1.stderrBuf", "l1.startTime", "l1.started"} -> "l1.mu"
      [] OTHER -> "l2.mu"

\* Task t is about to write the field.
AtWrite(t, field) == Rest(t) # <<>> /\ Head(Rest(t)) = Instr("write", field)

\* C38: every write to the Session's closed flag, terminal error and metrics
\* snapshot, and to the Launcher's temp-file list, stderr buffer, start time
\* and started flag, is made by a task that holds the mutex of that object,
\* and no two tasks are ever writing one of these fields at the same time.
C38_WritesUnderMutex ==
    /\ \A t \in Tasks :
          Rest(t) # <<>> /\ Head(Rest(t)).op = "write" =>
              /\ Head(Rest(t)).arg \in GuardedFields
              /\ Holder(Owner(Head(Rest(t)).arg)) = t
    /\ \A f \in GuardedFields : Cardinality({t \in Tasks : AtWrite(t, f)}) <= 1

\* C38 witness: readLoop is about to set s.closed in its deferred close()
\* while a second Run, whose Start failed, waits for s.mu at the Lock of its
\* own close().
C38_Witness ==
    /\ AtWrite("reader", "s.closed")
    /\ caller.pc = CloseProgram
    /\ ~s.closed

====
